---- MODULE Spec2Model ----
(***************************************************************************)
(* A model of the cos command-line wrapper (tools/cos/src/cos_cli):        *)
(* the layered configuration resolver (config.py), the backend-aware       *)
(* second resolution step (parser.py), the TOML quoting helper and the     *)
(* command builder (codex_runner.py), the run pipeline of chat, exec and   *)
(* resume, the pty relay and the output filter (parser.py).                *)
(*                                                                         *)
(* Texts.  A Python str is modelled as a sequence of symbols.  A symbol is *)
(* a single character (" ", "\t", "\n", "\r", "\"", "\\", "a", ...) or an  *)
(* indivisible literal word of the program or of an input ("--cd",         *)
(* "workspace-write", "http://x/mcp"); a word never contains whitespace,   *)
(* a double quote or a backslash, so strip(), toml_quote() and the name    *)
(* pattern treat it like one ordinary character.                           *)
(***************************************************************************)
EXTENDS Integers, Sequences, FiniteSets, TLC

VARIABLES
    phase,       \* "setup" before the invocation, then its position
    edits,       \* number of settings made before the invocation
    files,       \* the two config files on disk: [global, local]
    environ,     \* os.environ restricted to the COS_* names: key -> text
    overrides,   \* the overrides dict handed to resolve_effective_config
    resolved,    \* outcome of resolve_effective_config
    values,      \* result of _resolved_values_with_backend_defaults
    checks,      \* outcome of validate_config_files
    exit_code,   \* exit code of `cos config validate`
    args,        \* the namespace handed to build_codex_command
    user_prompt, \* its user_prompt argument
    passthrough, \* its passthrough argument
    cmd,         \* outcome of build_codex_command
    value,       \* argument of toml_quote
    quoted,      \* toml_quote(value)
    parsed,      \* what a TOML parser reads back from `quoted`
    inv,         \* the command line of a chat, exec or resume invocation
    host,        \* what the process finds around it (terminals, stdin, files)
    spawned,     \* the external programs started so far, in order
    touched,     \* the configuration sources read so far
    term,        \* the real terminal, the signal handler and the pty pair
    stdout,      \* the writes of the tool itself to standard output, in order
    data,        \* argument of _apply_green_theme_to_chunk
    patched      \* its result

vars == <<phase, edits, files, environ, overrides, resolved, values, checks,
          exit_code, args, user_prompt, passthrough, cmd, value, quoted, parsed,
          inv, host, spawned, touched, term, stdout, data, patched>>

cfgVars == <<files, environ, overrides, resolved, values, checks, exit_code>>
cmdVars == <<args, user_prompt, passthrough, cmd>>
quoteVars == <<value, quoted, parsed>>
runVars == <<inv, host, spawned, touched, term, stdout>>
filterVars == <<data, patched>>

(***************************************************************************)
(* Text helpers                                                            *)
(***************************************************************************)

\* the characters str.strip() removes
Whitespace == {" ", "\t", "\n", "\r"}

RECURSIVE LStrip(_)
LStrip(s) ==
    IF s # <<>> /\ Head(s) \in Whitespace THEN LStrip(Tail(s)) ELSE s

RECURSIVE RStrip(_)
RStrip(s) ==
    IF s # <<>> /\ s[Len(s)] \in Whitespace
    THEN RStrip(SubSeq(s, 1, Len(s) - 1))
    ELSE s

\* str.strip()
Strip(s) == RStrip(LStrip(s))

Range(s) == {s[i] : i \in DOMAIN s}

(***************************************************************************)
(* config.py: constants                                                    *)
(***************************************************************************)

DEFAULT_APP_MCP_NAME == <<"task-management-tools">>
DEFAULT_APP_MCP_URL == <<"http://localhost:8091/mcp">>
DEFAULT_SYSTEM_PROMPT_FILE == <<"~/.cos/system.md">>
DEFAULT_APP_MCP_BEARER_ENV == <<>>
DEFAULT_TERMINAL_THEME == <<"green">>
DEFAULT_CODEX_BACKEND == <<"docker">>
DEFAULT_DOCKER_CONTAINER == <<"task-app">>
DEFAULT_DOCKER_WORKDIR == <<"/app">>
DEFAULT_DOCKER_CODEX_BINARY == <<"codex">>
DEFAULT_DOCKER_APP_MCP_URL == <<"http://mcp-tools:8090/mcp">>
DEFAULT_DOCKER_CODEX_HOME_ROOT == <<"/home/app/codex-home/workspace">>

VALID_SANDBOX == {<<"read-only">>, <<"workspace-write">>, <<"danger-full-access">>}
VALID_APPROVAL == {<<"untrusted">>, <<"on-request">>, <<"never">>}
VALID_TERMINAL_THEME == {<<"default">>, <<"green">>}
VALID_CODEX_BACKEND == {<<"local">>, <<"docker">>}

DEFAULTS ==
    [repo |-> <<>>,
     model |-> <<>>,
     sandbox |-> <<"workspace-write">>,
     approval |-> <<"on-request">>,
     terminal_theme |-> DEFAULT_TERMINAL_THEME,
     codex_backend |-> DEFAULT_CODEX_BACKEND,
     docker_container |-> DEFAULT_DOCKER_CONTAINER,
     docker_workdir |-> DEFAULT_DOCKER_WORKDIR,
     docker_codex_binary |-> DEFAULT_DOCKER_CODEX_BINARY,
     docker_app_mcp_url |-> DEFAULT_DOCKER_APP_MCP_URL,
     docker_codex_home_root |-> DEFAULT_DOCKER_CODEX_HOME_ROOT,
     app_mcp_name |-> DEFAULT_APP_MCP_NAME,
     app_mcp_url |-> DEFAULT_APP_MCP_URL,
     app_mcp_bearer_env |-> DEFAULT_APP_MCP_BEARER_ENV,
     system_prompt_file |-> DEFAULT_SYSTEM_PROMPT_FILE]

ENV_VAR_MAP ==
    [repo |-> "COS_REPO",
     model |-> "COS_MODEL",
     sandbox |-> "COS_SANDBOX",
     approval |-> "COS_APPROVAL",
     terminal_theme |-> "COS_TERMINAL_THEME",
     codex_backend |-> "COS_CODEX_BACKEND",
     docker_container |-> "COS_DOCKER_CONTAINER",
     docker_workdir |-> "COS_DOCKER_WORKDIR",
     docker_codex_binary |-> "COS_DOCKER_CODEX_BINARY",
     docker_app_mcp_url |-> "COS_DOCKER_APP_MCP_URL",
     docker_codex_home_root |-> "COS_DOCKER_CODEX_HOME_ROOT",
     app_mcp_name |-> "COS_APP_MCP_NAME",
     app_mcp_url |-> "COS_APP_MCP_URL",
     app_mcp_bearer_env |-> "COS_APP_MCP_BEARER_ENV",
     system_prompt_file |-> "COS_SYSTEM_PROMPT_FILE"]

CONFIG_KEYS == DOMAIN DEFAULTS

\* the iteration order of ENV_VAR_MAP (a dict keeps insertion order)
EnvKeyOrder ==
    <<"repo", "model", "sandbox", "approval", "terminal_theme", "codex_backend",
      "docker_container", "docker_workdir", "docker_codex_binary",
      "docker_app_mcp_url", "docker_codex_home_root", "app_mcp_name",
      "app_mcp_url", "app_mcp_bearer_env", "system_prompt_file">>

\* the keys _validate_value constrains, with their allowed sets
EnumKeys == {"sandbox", "approval", "terminal_theme", "codex_backend"}

Allowed(key) ==
    CASE key = "sandbox" -> VALID_SANDBOX
      [] key = "approval" -> VALID_APPROVAL
      [] key = "terminal_theme" -> VALID_TERMINAL_THEME
      [] key = "codex_backend" -> VALID_CODEX_BACKEND

(***************************************************************************)
(* Raw values.  A TOML value or an override is [kind, text]:               *)
(*   kind "absent"  the key is not there (an override that is None)        *)
(*   kind "str"     a string, text its content                             *)
(*   kind "other"   a TOML value that is not a string (integer, table...)  *)
(***************************************************************************)

Absent == [kind |-> "absent", text |-> <<>>]
Str(t) == [kind |-> "str", text |-> t]
NotAString == [kind |-> "other", text |-> <<>>]

\* keys a config file may hold that CONFIG_KEYS does not know
UnknownKeys == {"colour", "editor"}
FileKeys == CONFIG_KEYS \cup UnknownKeys

\* _coerce_string: "ok" with the stripped text, or the ConfigError
\* "<source>: key '<key>' must be a string."
_coerce_string(key, raw, source) ==
    IF raw.kind # "str"
    THEN [ok |-> FALSE,
          error |-> [kind |-> "not_string", source |-> source, key |-> key,
                     value |-> <<>>, allowed |-> {}]]
    ELSE [ok |-> TRUE, text |-> Strip(raw.text)]

\* _validate_value with the terminal_theme check left out
_validate_value_NoThemeCheck(key, raw, source) ==
    LET c == _coerce_string(key, raw, source) IN
    IF ~c.ok THEN c
    ELSE IF key \in EnumKeys \ {"terminal_theme"} /\ c.text \notin Allowed(key)
    THEN [ok |-> FALSE,
          error |-> [kind |-> "invalid", source |-> source, key |-> key,
                     value |-> c.text, allowed |-> Allowed(key)]]
    ELSE c

\* _validate_value: the stripped text, or the ConfigError
\* "<source>: invalid value for '<key>' (<value>). Allowed: <sorted set>."
_validate_value(key, raw, source) ==
    LET c == _coerce_string(key, raw, source) IN
    IF ~c.ok THEN c
    ELSE IF key \in EnumKeys /\ c.text \notin Allowed(key)
    THEN [ok |-> FALSE,
          error |-> [kind |-> "invalid", source |-> source, key |-> key,
                     value |-> c.text, allowed |-> Allowed(key)]]
    ELSE c

(***************************************************************************)
(* config.py: loading one config file                                      *)
(*                                                                         *)
(* A file on disk is [state, data]:                                        *)
(*   state "absent"         no such path                                   *)
(*   state "dir"            the path exists and is not a regular file      *)
(*   state "bad_toml"       a regular file tomllib cannot parse            *)
(*   state "cos_not_table"  parses, and `cos` is there and is not a table  *)
(*   state "ok"             parses; data holds the items of [cos] (or of   *)
(*                          the root when there is no [cos]): key -> raw   *)
(***************************************************************************)

GlobalPath == "~/.cos/config.toml"
LocalPath == "<repo>/.cos/config.toml"

NoError == [kind |-> "none", source |-> "", key |-> "", value |-> <<>>, allowed |-> {}]
ErrorOf(kind, source) ==
    [kind |-> kind, source |-> source, key |-> "", value |-> <<>>, allowed |-> {}]

\* the errors that are ConfigError; "toml_decode" is tomllib.TOMLDecodeError,
\* a ValueError that no handler of the package catches
ConfigErrorKinds == {"not_string", "invalid", "not_file", "not_table"}

Loaded(vals, unknown, exists) ==
    [ok |-> TRUE, values |-> vals, unknown_keys |-> unknown, exists |-> exists,
     error |-> NoError]
LoadFailed(e) ==
    [ok |-> FALSE, values |-> <<>>, unknown_keys |-> {}, exists |-> TRUE, error |-> e]

\* keys of the section, known and present
PresentKeys(file) == {k \in CONFIG_KEYS : file.data[k].kind # "absent"}

\* _load_config_file that leaves out the values _validate_value rejects
_load_config_file_SkipInvalid(path, file) ==
    IF file.state = "bad_toml" THEN {LoadFailed(ErrorOf("toml_decode", path))}
    ELSE IF file.state = "cos_not_table" THEN {LoadFailed(ErrorOf("not_table", path))}
    ELSE
      LET good == {k \in PresentKeys(file) : _validate_value(k, file.data[k], path).ok}
          unknown == {k \in UnknownKeys : file.data[k].kind # "absent"}
      IN {Loaded([k \in good |-> _validate_value(k, file.data[k], path).text],
                 unknown, TRUE)}

\* _load_config_file: the set of possible outcomes.  The loop stops at the
\* first key, in document order, whose value _validate_value rejects; the
\* document order is not part of the model, so any rejected key can be it.
_load_config_file(path, file) ==
    IF file.state = "bad_toml" THEN {LoadFailed(ErrorOf("toml_decode", path))}
    ELSE IF file.state = "cos_not_table" THEN {LoadFailed(ErrorOf("not_table", path))}
    ELSE
      LET present == PresentKeys(file)
          bad == {k \in present : ~_validate_value(k, file.data[k], path).ok}
          unknown == {k \in UnknownKeys : file.data[k].kind # "absent"}
      IN IF bad # {}
         THEN {LoadFailed(_validate_value(k, file.data[k], path).error) : k \in bad}
         ELSE {Loaded([k \in present |-> _validate_value(k, file.data[k], path).text],
                      unknown, TRUE)}

\* _load_existing_config_file
_load_existing_config_file(path, file) ==
    IF file.state = "absent" THEN {Loaded(<<>>, {}, FALSE)}
    ELSE IF file.state = "dir" THEN {LoadFailed(ErrorOf("not_file", path))}
    ELSE _load_config_file(path, file)

(***************************************************************************)
(* config.py: resolve_effective_config                                     *)
(***************************************************************************)

Failure(e) == [status |-> "error", error |-> e]
ResolvedConfig(vals, srcs, gexists, lexists) ==
    [status |-> "ok", values |-> vals, sources |-> srcs,
     global_config_exists |-> gexists, local_config_exists |-> lexists,
     error |-> NoError]

EnvSource(key) == "environment variable " \o ENV_VAR_MAP[key]
CliSource == "CLI option"

\* lines 163-168: a file's values overwrite, and the provenance follows
MergeFile(cur, loaded, tag) ==
    [values |-> [k \in CONFIG_KEYS |->
                    IF k \in DOMAIN loaded.values THEN loaded.values[k]
                    ELSE cur.values[k]],
     sources |-> [k \in CONFIG_KEYS |->
                    IF k \in DOMAIN loaded.values THEN tag ELSE cur.sources[k]]]

\* line 171-173: the environment supplies a key when the stripped value is
\* not empty (unset and empty are the same: os.getenv(name, ""))
EnvSupplies(env, key) == Strip(env[key]) # <<>>

\* MergeEnv with the environment ranked below the config files
MergeEnv_BelowFiles(cur, env) ==
    [values |-> [k \in CONFIG_KEYS |->
                    IF EnvSupplies(env, k) /\ cur.sources[k] = "default"
                    THEN Strip(env[k])
                    ELSE cur.values[k]],
     sources |-> [k \in CONFIG_KEYS |->
                    IF EnvSupplies(env, k) /\ cur.sources[k] = "default"
                    THEN "env" ELSE cur.sources[k]]]

\* lines 170-175
MergeEnv(cur, env) ==
    [values |-> [k \in CONFIG_KEYS |->
                    IF EnvSupplies(env, k)
                    THEN _validate_value(k, Str(Strip(env[k])), EnvSource(k)).text
                    ELSE cur.values[k]],
     sources |-> [k \in CONFIG_KEYS |->
                    IF EnvSupplies(env, k) THEN "env" ELSE cur.sources[k]]]

\* line 178: an override is used unless its key is unknown or it is None
CliSupplies(ovr, key) ==
    key \in CONFIG_KEYS /\ key \in DOMAIN ovr /\ ovr[key].kind # "absent"

\* lines 177-181
MergeCli(cur, ovr) ==
    [values |-> [k \in CONFIG_KEYS |->
                    IF CliSupplies(ovr, k)
                    THEN _validate_value(k, ovr[k], CliSource).text
                    ELSE cur.values[k]],
     sources |-> [k \in CONFIG_KEYS |->
                    IF CliSupplies(ovr, k) THEN "cli" ELSE cur.sources[k]]]

\* the first key, in ENV_VAR_MAP order from position i, whose environment
\* value is rejected; 0 when there is none
RECURSIVE FirstBadEnv(_, _)
FirstBadEnv(env, i) ==
    IF i > Len(EnvKeyOrder) THEN 0
    ELSE LET k == EnvKeyOrder[i] IN
         IF EnvSupplies(env, k)
            /\ ~_validate_value(k, Str(Strip(env[k])), EnvSource(k)).ok
         THEN i
         ELSE FirstBadEnv(env, i + 1)

\* resolve_effective_config: the set of possible outcomes, a ResolvedConfig
\* or the exception that leaves the function
resolve_effective_config(fs, env, ovr) ==
    LET start == [values |-> DEFAULTS,
                  sources |-> [k \in CONFIG_KEYS |-> "default"]]
        badEnv == FirstBadEnv(env, 1)
        badCli == {k \in CONFIG_KEYS :
                      CliSupplies(ovr, k) /\ ~_validate_value(k, ovr[k], CliSource).ok}
    IN UNION {
         IF ~g.ok THEN {Failure(g.error)}
         ELSE UNION {
           IF ~l.ok THEN {Failure(l.error)}
           ELSE IF badEnv # 0
           THEN LET k == EnvKeyOrder[badEnv] IN
                {Failure(_validate_value(k, Str(Strip(env[k])), EnvSource(k)).error)}
           ELSE IF badCli # {}
           THEN {Failure(_validate_value(k, ovr[k], CliSource).error) : k \in badCli}
           ELSE LET m == MergeCli(MergeEnv(MergeFile(MergeFile(start, g, "global_config"),
                                                     l, "local_config"), env), ovr)
                IN {ResolvedConfig(m.values, m.sources, g.exists, l.exists)}
           : l \in _load_existing_config_file(LocalPath, fs.local) }
         : g \in _load_existing_config_file(GlobalPath, fs.global) }

(***************************************************************************)
(* parser.py: _resolved_values_with_backend_defaults                       *)
(***************************************************************************)

\* the fallback decided by value instead of provenance
_resolved_values_with_backend_defaults_ByValue(r) ==
    LET copy == [k \in CONFIG_KEYS |-> r.values[k]]
        withUrl == IF copy["app_mcp_url"] = DEFAULT_APP_MCP_URL
                   THEN [copy EXCEPT !["app_mcp_url"] = Strip(copy["docker_app_mcp_url"])]
                   ELSE copy
        withRepo == IF Strip(withUrl["repo"]) = <<>>
                    THEN [withUrl EXCEPT !["repo"] = Strip(withUrl["docker_workdir"])]
                    ELSE withUrl
    IN IF Strip(copy["codex_backend"]) # <<"docker">> THEN copy ELSE withRepo

\* lines 104-117: a new dict is built from resolved.values; `resolved` is
\* only read
_resolved_values_with_backend_defaults(r) ==
    LET copy == [k \in CONFIG_KEYS |-> r.values[k]]
        backend == Strip(copy["codex_backend"])
        withUrl == IF r.sources["app_mcp_url"] = "default"
                   THEN [copy EXCEPT !["app_mcp_url"] = Strip(copy["docker_app_mcp_url"])]
                   ELSE copy
        withRepo == IF r.sources["repo"] = "default" /\ Strip(withUrl["repo"]) = <<>>
                    THEN [withUrl EXCEPT !["repo"] = Strip(withUrl["docker_workdir"])]
                    ELSE withUrl
    IN IF backend # <<"docker">> THEN copy ELSE withRepo

(***************************************************************************)
(* config.py: validate_config_files, and `cos config validate`             *)
(***************************************************************************)

Check(name, status, subject) == [name |-> name, status |-> status, subject |-> subject]

\* the order in which the modelled documents list their unknown keys
UnknownKeyOrder == <<"colour", "editor">>

\* lines 227-234: one "warn" record per unknown key, in document order
UnknownKeyChecks(label, file) ==
    LET There(k) == file.data[k].kind # "absent"
        keys == SelectSeq(UnknownKeyOrder, There)
    IN [i \in 1..Len(keys) |-> Check(label \o "_config_unknown_key", "warn", keys[i])]

\* lines 198-242 for one file: the possible outcomes, each the list of
\* records appended for the file, or raised = TRUE when the TOML decoder's
\* error leaves the function (line 235 catches ConfigError only)
ChecksForFile(label, path, file) ==
    IF file.state = "absent"
    THEN {[raised |-> FALSE, list |-> <<Check(label \o "_config_file", "ok", "not found")>>]}
    ELSE IF file.state = "dir"
    THEN {[raised |-> FALSE, list |-> <<Check(label \o "_config_file", "fail", "not_file")>>]}
    ELSE {IF out.ok
          THEN [raised |-> FALSE,
                list |-> <<Check(label \o "_config_file", "ok", "parsed")>>
                         \o UnknownKeyChecks(label, file)]
          ELSE IF out.error.kind \in ConfigErrorKinds
          THEN [raised |-> FALSE,
                list |-> <<Check(label \o "_config_file", "fail", out.error.kind)>>]
          ELSE [raised |-> TRUE, list |-> <<>>]
          : out \in _load_config_file(path, file)}

\* validate_config_files: the global file, then the local file
validate_config_files(fs) ==
    {IF g.raised \/ l.raised
     THEN [raised |-> TRUE, list |-> <<>>]
     ELSE [raised |-> FALSE, list |-> g.list \o l.list]
     : g \in ChecksForFile("global", GlobalPath, fs.global),
       l \in ChecksForFile("local", LocalPath, fs.local)}

\* _summarize_checks
_summarize_checks(list) ==
    [s \in {"ok", "warn", "fail"} |->
        Cardinality({i \in DOMAIN list : list[i].status = s})]

\* the exit code with warnings counted as failures
ValidateExitCode_WarnFails(list) ==
    IF _summarize_checks(list)["fail"] + _summarize_checks(list)["warn"] > 0 THEN 1 ELSE 0

\* config_validate_command, line 486
ValidateExitCode(list) == IF _summarize_checks(list)["fail"] > 0 THEN 1 ELSE 0

(***************************************************************************)
(* codex_runner.py: toml_quote, and the TOML basic-string grammar of the   *)
(* parser that reads the value back                                        *)
(***************************************************************************)

RECURSIVE Replace(_, _, _)
\* str.replace(old, new) for a one-character `old`
Replace(s, old, new) ==
    IF s = <<>> THEN <<>>
    ELSE (IF Head(s) = old THEN new ELSE <<Head(s)>>) \o Replace(Tail(s), old, new)

\* toml_quote: five replace passes in the order of lines 12-16, then the
\* surrounding quotes
toml_quote(v) ==
    <<"\"">>
    \o Replace(Replace(Replace(Replace(Replace(v,
          "\\", <<"\\", "\\">>),
          "\"", <<"\\", "\"">>),
          "\n", <<"\\", "n">>),
          "\r", <<"\\", "r">>),
          "\t", <<"\\", "t">>)
    \o <<"\"">>

\* control characters a TOML basic string may not hold unescaped: all of
\* them but the tab ("\f" stands for the ones toml_quote does not escape:
\* form feed, backspace, ESC, NUL, DEL)
IllegalInBasicString == {"\n", "\r", "\f"}

\* the character an escape sequence "\x" denotes; <<>> when x starts no
\* escape
Unescape(x) ==
    CASE x = "n" -> <<"\n">>
      [] x = "r" -> <<"\r">>
      [] x = "t" -> <<"\t">>
      [] x = "f" -> <<"\f">>
      [] x = "\"" -> <<"\"">>
      [] x = "\\" -> <<"\\">>
      [] OTHER -> <<>>

RECURSIVE ParseBody(_, _)
\* the content of a basic string after its opening quote: read up to the
\* closing quote, which must end the text
ParseBody(s, acc) ==
    IF s = <<>> THEN [ok |-> FALSE, text |-> <<>>]
    ELSE IF Head(s) = "\"" THEN [ok |-> Tail(s) = <<>>, text |-> IF Tail(s) = <<>> THEN acc ELSE <<>>]
    ELSE IF Head(s) = "\\"
    THEN IF Len(s) < 2 \/ Unescape(s[2]) = <<>>
         THEN [ok |-> FALSE, text |-> <<>>]
         ELSE ParseBody(Tail(Tail(s)), acc \o Unescape(s[2]))
    ELSE IF Head(s) \in IllegalInBasicString THEN [ok |-> FALSE, text |-> <<>>]
    ELSE ParseBody(Tail(s), Append(acc, Head(s)))

\* a TOML parser reading a basic string
ParseBasicString(q) ==
    IF q = <<>> \/ Head(q) # "\"" THEN [ok |-> FALSE, text |-> <<>>]
    ELSE ParseBody(Tail(q), <<>>)

\* the characters the quoted texts are made of
MaxLen == 3
QuoteAlphabet == {"a", "n", "\\", "\"", "\n", "\r", "\t", "\f"}
QuoteInputs == UNION {[1..n -> QuoteAlphabet] : n \in 0..MaxLen}

(***************************************************************************)
(* codex_runner.py: building the command line.  An argument vector is a    *)
(* sequence of texts.                                                      *)
(***************************************************************************)

\* str.lower() on the words the inputs use
LowerSym(c) ==
    CASE c = "Docker" -> "docker"
      [] c = "LOCAL" -> "local"
      [] OTHER -> c

Lower(s) == [i \in DOMAIN s |-> LowerSym(s[i])]

\* words made only of the characters [a-zA-Z0-9_-]
NameWords ==
    {"task-management-tools", "task-tools", "bad", "name", "a", "b", "TOKEN_ENV",
     "abc-123", "s-1"}

\* MCP_SERVER_NAME_PATTERN.fullmatch(v)
MCP_SERVER_NAME_PATTERN(v) == v # <<>> /\ \A i \in DOMAIN v : v[i] \in NameWords

\* the stripped name, or the RuntimeError
validate_mcp_server_name(name) ==
    LET v == Strip(name) IN
    IF v = <<>> THEN [ok |-> TRUE, value |-> v]
    ELSE IF ~MCP_SERVER_NAME_PATTERN(v) THEN [ok |-> FALSE, value |-> v]
    ELSE [ok |-> TRUE, value |-> v]

Built(argv) == [status |-> "ok", argv |-> argv, error |-> "none"]
RuntimeError(what) == [status |-> "error", argv |-> <<>>, error |-> what]

\* backend = str(args.codex_backend or "").strip().lower()
BackendOf(a) == Lower(Strip(a.codex_backend))

\* lines 139-142
CodexBinary(a) ==
    IF BackendOf(a) = <<"docker">> /\ Strip(a.docker_codex_binary) # <<>>
    THEN Strip(a.docker_codex_binary)
    ELSE <<"codex">>

\* lines 144-149 (the command is one of chat, exec, resume)
Subcommand(a) ==
    CASE a.command = "chat" -> <<CodexBinary(a)>>
      [] a.command = "exec" -> <<CodexBinary(a), <<"exec">>>>
      [] a.command = "resume" -> <<CodexBinary(a), <<"resume">>>>

\* lines 153-168: --cd, -m, --sandbox, --ask-for-approval, the bypass flag
\* and --search
CommonFlags(a) ==
    (IF Strip(a.repo) # <<>> THEN <<<<"--cd">>, Strip(a.repo)>> ELSE <<>>)
    \o (IF Strip(a.model) # <<>> THEN <<<<"-m">>, Strip(a.model)>> ELSE <<>>)
    \o <<<<"--sandbox">>, a.sandbox>>
    \o (IF a.command \in {"chat", "resume"}
        THEN <<<<"--ask-for-approval">>, a.approval>> ELSE <<>>)
    \o (IF a.dangerous THEN <<<<"--dangerously-bypass-approvals-and-sandbox">>>> ELSE <<>>)
    \o (IF a.command \in {"chat", "resume"} /\ a.search THEN <<<<"--search">>>> ELSE <<>>)

\* KindFlags with --all put before --last
KindFlags_AllFirst(a) ==
    IF a.command = "exec"
    THEN (IF a.json THEN <<<<"--json">>>> ELSE <<>>)
         \o (IF a.skip_git_repo_check THEN <<<<"--skip-git-repo-check">>>> ELSE <<>>)
    ELSE IF a.command = "resume"
    THEN (IF a.resume_all THEN <<<<"--all">>>> ELSE <<>>)
         \o (IF a.resume_last THEN <<<<"--last">>>> ELSE <<>>)
         \o (IF Strip(a.resume_session_id) # <<>>
             THEN <<Strip(a.resume_session_id)>> ELSE <<>>)
    ELSE <<>>

\* lines 170-183: the flags of exec and of resume
KindFlags(a) ==
    IF a.command = "exec"
    THEN (IF a.json THEN <<<<"--json">>>> ELSE <<>>)
         \o (IF a.skip_git_repo_check THEN <<<<"--skip-git-repo-check">>>> ELSE <<>>)
    ELSE IF a.command = "resume"
    THEN (IF a.resume_last THEN <<<<"--last">>>> ELSE <<>>)
         \o (IF a.resume_all THEN <<<<"--all">>>> ELSE <<>>)
         \o (IF Strip(a.resume_session_id) # <<>>
             THEN <<Strip(a.resume_session_id)>> ELSE <<>>)
    ELSE <<>>

\* McpArgs with the bearer pair given whether or not a name is configured
McpArgs_BearerAlways(a, mcp_name) ==
    LET mcp_url == Strip(a.app_mcp_url)
        token_env == Strip(a.app_mcp_bearer_env)
    IN  IF mcp_name # <<>> /\ mcp_url # <<>>
        THEN << <<"-c">>,
                <<"mcp_servers.">> \o mcp_name \o <<".url=">> \o toml_quote(mcp_url),
                <<"-c">>,
                <<"mcp_servers.">> \o mcp_name \o <<".enabled=true">>,
                <<"-c">>,
                <<"mcp_servers.">> \o mcp_name \o <<".bearer_token_env_var=">>
                    \o toml_quote(token_env) >>
        ELSE <<>>

\* lines 187-207: the -c pairs for a validated name
McpArgs(a, mcp_name) ==
    LET mcp_url == Strip(a.app_mcp_url)
        token_env == Strip(a.app_mcp_bearer_env)
    IN  IF mcp_name # <<>> /\ mcp_url # <<>>
        THEN << <<"-c">>,
                <<"mcp_servers.">> \o mcp_name \o <<".url=">> \o toml_quote(mcp_url),
                <<"-c">>,
                <<"mcp_servers.">> \o mcp_name \o <<".enabled=true">> >>
             \o (IF token_env # <<>>
                 THEN << <<"-c">>,
                         <<"mcp_servers.">> \o mcp_name \o <<".bearer_token_env_var=">>
                             \o toml_quote(token_env) >>
                 ELSE <<>>)
        ELSE <<>>

\* lines 209-214: passthrough, then the stripped prompt when it is not empty
Trailer(prompt, pass) ==
    pass \o (IF Strip(prompt) # <<>> THEN <<Strip(prompt)>> ELSE <<>>)

_build_inner_codex_command(a, prompt, pass) ==
    IF a.command \notin {"chat", "exec", "resume"}
    THEN RuntimeError("unsupported_command")
    ELSE IF ~a.no_app_mcp
    THEN LET mcp == validate_mcp_server_name(a.app_mcp_name) IN
         IF ~mcp.ok THEN RuntimeError("invalid_mcp_server_name")
         ELSE Built(Subcommand(a) \o CommonFlags(a) \o KindFlags(a)
                    \o McpArgs(a, mcp.value) \o Trailer(prompt, pass))
    ELSE Built(Subcommand(a) \o CommonFlags(a) \o KindFlags(a) \o Trailer(prompt, pass))

\* _wrap_with_docker_exec that asks for a terminal for every command
_wrap_with_docker_exec_AlwaysTty(a, inner) ==
    IF Strip(a.docker_container) = <<>> THEN RuntimeError("no_container")
    ELSE IF ~a.interactive_tty THEN RuntimeError("no_tty")
    ELSE Built(<<<<"docker">>, <<"exec">>, <<"-i">>, <<"-t">>>>
               \o (IF Strip(a.docker_home) # <<>>
                   THEN <<<<"-e">>, <<"HOME=">> \o Strip(a.docker_home)>> ELSE <<>>)
               \o (IF Strip(a.docker_workdir) # <<>>
                   THEN <<<<"-w">>, Strip(a.docker_workdir)>> ELSE <<>>)
               \o <<Strip(a.docker_container)>>
               \o inner)

_wrap_with_docker_exec(a, inner) ==
    IF Strip(a.docker_container) = <<>> THEN RuntimeError("no_container")
    ELSE IF a.command \in {"chat", "resume"} /\ ~a.interactive_tty THEN RuntimeError("no_tty")
    ELSE Built(<<<<"docker">>, <<"exec">>, <<"-i">>>>
               \o (IF a.command \in {"chat", "resume"} THEN <<<<"-t">>>> ELSE <<>>)
               \o (IF Strip(a.docker_home) # <<>>
                   THEN <<<<"-e">>, <<"HOME=">> \o Strip(a.docker_home)>> ELSE <<>>)
               \o (IF Strip(a.docker_workdir) # <<>>
                   THEN <<<<"-w">>, Strip(a.docker_workdir)>> ELSE <<>>)
               \o <<Strip(a.docker_container)>>
               \o inner)

build_codex_command(a, prompt, pass) ==
    LET inner == _build_inner_codex_command(a, prompt, pass) IN
    IF inner.status = "error" THEN inner
    ELSE IF BackendOf(a) = <<"local">> THEN inner
    ELSE IF BackendOf(a) = <<"docker">> THEN _wrap_with_docker_exec(a, inner.argv)
    ELSE RuntimeError("unsupported_backend")

(***************************************************************************)
(* parser.py: the output filter.  A chunk of bytes is a sequence of        *)
(* symbols: "ESC" (0x1b), "[", ";", "m", decimal digits, and "x" for any   *)
(* other byte.                                                             *)
(***************************************************************************)

Digits == {"0", "3", "4", "5", "7", "8", "9"}

\* the bytes the group ([0-9;]*) of _SGR_PATTERN takes
ParamBytes == Digits \cup {";"}

\* _GREEN_SGR
_GREEN_SGR == <<"ESC", "[", "3", "2", "m">>

RECURSIVE ParamRun(_)
\* how many bytes at the head of s the group [0-9;]* takes (it is greedy)
ParamRun(s) ==
    IF s # <<>> /\ Head(s) \in ParamBytes THEN 1 + ParamRun(Tail(s)) ELSE 0

\* length of the match of _SGR_PATTERN at the head of s, 0 when there is none
SgrMatch(s) ==
    IF Len(s) >= 3 /\ s[1] = "ESC" /\ s[2] = "["
    THEN LET k == ParamRun(SubSeq(s, 3, Len(s))) IN
         IF 3 + k <= Len(s) /\ s[3 + k] = "m" THEN 3 + k ELSE 0
    ELSE 0

RECURSIVE SplitParams(_, _)
\* params.split(";"): cur is the part being read
SplitParams(params, cur) ==
    IF params = <<>> THEN <<cur>>
    ELSE IF Head(params) = ";" THEN <<cur>> \o SplitParams(Tail(params), <<>>)
    ELSE SplitParams(Tail(params), Append(cur, Head(params)))

\* the codes after which the theme colour is set again
ResetCodes == {<<"0">>, <<"3", "9">>, <<"3", "7">>, <<"9", "7">>}

\* _replace without the bright white code 97
_replace_NoBrightWhite(match) ==
    LET params == SubSeq(match, 3, Len(match) - 1)
        parts == SelectSeq(SplitParams(params, <<>>), LAMBDA part : part # <<>>)
    IN  IF parts = <<>> THEN match \o _GREEN_SGR
        ELSE IF \E i \in DOMAIN parts : parts[i] \in ResetCodes \ {<<"9", "7">>}
        THEN match \o _GREEN_SGR
        ELSE match

\* _replace, lines 138-145
_replace(match) ==
    LET params == SubSeq(match, 3, Len(match) - 1)
        parts == SelectSeq(SplitParams(params, <<>>), LAMBDA part : part # <<>>)
    IN  IF parts = <<>> THEN match \o _GREEN_SGR
        ELSE IF \E i \in DOMAIN parts : parts[i] \in ResetCodes
        THEN match \o _GREEN_SGR
        ELSE match

RECURSIVE _apply_green_theme_to_chunk(_)
\* _SGR_PATTERN.sub(_replace, data): leftmost matches, left to right, none
\* overlapping
_apply_green_theme_to_chunk(d) ==
    IF d = <<>> THEN <<>>
    ELSE LET n == SgrMatch(d) IN
         IF n > 0
         THEN _replace(SubSeq(d, 1, n)) \o _apply_green_theme_to_chunk(SubSeq(d, n + 1, Len(d)))
         ELSE <<Head(d)>> \o _apply_green_theme_to_chunk(Tail(d))

MaxChunk == 5
ChunkBytes == {"ESC", "[", "m", ";", "x", "0", "3", "7", "9"}
Chunks == UNION {[1..n -> ChunkBytes] : n \in 0..MaxChunk}

\* colour sequences with arguments: palette colours for the foreground (38)
\* and the background (48), and a plain foreground with a background
ColourChunks ==
    { <<"ESC", "[", "3", "8", ";", "5", ";", "0", "m">>,
      <<"ESC", "[", "4", "8", ";", "5", ";", "3", "7", "m">>,
      <<"ESC", "[", "3", "8", ";", "5", ";", "9", "m">>,
      <<"ESC", "[", "3", "7", ";", "4", "8", ";", "5", ";", "9", "m">> }

(***************************************************************************)
(* What an invocation finds.  Before it starts, the user writes the config *)
(* files, exports COS_* variables and types options: at most MaxEntries    *)
(* settings on top of an empty setup, or one key set in all four layers.   *)
(***************************************************************************)

MaxEntries == 2

LayerTag(layer) ==
    CASE layer = "global" -> "g" [] layer = "local" -> "l"
      [] layer = "env" -> "e" [] layer = "cli" -> "c"

\* the texts a layer may give a key
Texts(layer, key) ==
    IF key \in EnumKeys
    THEN Allowed(key) \cup {<<"bogus">>, <<>>}
         \cup {<<" ">> \o v \o <<"\n">> : v \in Allowed(key) \ {DEFAULTS[key]}}
    ELSE {<<LayerTag(layer)>>, <<" ", LayerTag(layer), "\t">>, DEFAULTS[key], <<" ">>, <<>>}

\* the raw values a layer may give a key
Raws(layer, key) ==
    IF layer \in {"global", "local"}
    THEN IF key \in UnknownKeys THEN {Str(<<"bogus">>), NotAString}
         ELSE {Str(t) : t \in Texts(layer, key)} \cup {NotAString}
    ELSE IF key \in UnknownKeys THEN {Str(<<"c">>)}
    ELSE {Str(t) : t \in Texts(layer, key)}

EmptyFile == [state |-> "absent", data |-> [k \in FileKeys |-> Absent]]
EmptyEnviron == [k \in CONFIG_KEYS |-> <<>>]
\* the callers pass every option, None when it was not typed
NoOverrides == [k \in CONFIG_KEYS \cup {"colour"} |-> Absent]

\* a key written into a file: the file exists and parses from then on
WithKey(file, key, raw) ==
    [state |-> "ok", data |-> [file.data EXCEPT ![key] = raw]]

None == [status |-> "none"]
NoArgs == [command |-> "none"]
NoCmd == [status |-> "none"]
NoParse == [ok |-> FALSE, text |-> <<>>]
NoInv ==
    [ command |-> "none", prompt |-> <<>>, session_id |-> <<>>, last |-> FALSE,
      show_all |-> FALSE, dangerous |-> FALSE, search |-> FALSE, json_output |-> FALSE,
      skip_git_repo_check |-> FALSE, no_app_mcp |-> FALSE,
      user_text |-> <<>>,      \* the prompt once resolve_user_prompt has run
      workspace_id |-> <<>> ]  \* runtime_scope["workspace_id"] once resolved
NoHost ==
    [ has_posix_tty |-> FALSE,     \* _HAS_POSIX_TTY
      stdin_tty |-> FALSE,         \* sys.stdin.isatty()
      stdout_tty |-> FALSE,        \* sys.stdout.isatty()
      stdin_text |-> <<>>,         \* what sys.stdin.read() gives
      system_prompt |-> "absent",  \* the system prompt file: "absent", "text", "unreadable"
      workspace_id |-> <<>>,       \* COS_WORKSPACE_ID where the agent runs
      codex_on_path |-> FALSE,     \* shutil.which("codex")
      docker_on_path |-> FALSE ]   \* shutil.which("docker")
Pending(kind, code) == [kind |-> kind, code |-> code]
NoStatus == [ended |-> FALSE, status |-> 0]
EndedWith(status) == [ended |-> TRUE, status |-> status]
TermAtRest ==
    [ mode |-> "original",       \* the real terminal: "original" or "raw"
      sigwinch |-> "previous",   \* the SIGWINCH handler: "previous" or "relay"
      master |-> "none",         \* master_fd: "none", "open" or "closed"
      slave |-> "none",          \* slave_fd, alike
      ready |-> {},              \* read_fds of the last select
      relayed |-> 0,             \* chunks of child output relayed
      child |-> NoStatus,        \* the agent's exit status, once it has ended
      stdin_eof |-> FALSE,       \* the real terminal's input has reached its end
      pending |-> Pending("none", 0) ]  \* what the try block ended with

\* no run and no filter call is in progress
RunIdle ==
    /\ inv = NoInv
    /\ host = NoHost
    /\ spawned = <<>>
    /\ touched = {}
    /\ term = TermAtRest
    /\ stdout = <<>>

FilterIdle ==
    /\ data = <<>>
    /\ patched = <<>>

Idle ==
    /\ resolved = None
    /\ values = <<>>
    /\ checks = [raised |-> FALSE, list |-> <<>>]
    /\ exit_code = -1
    /\ args = NoArgs
    /\ user_prompt = <<>>
    /\ passthrough = <<>>
    /\ cmd = NoCmd
    /\ value = <<>>
    /\ quoted = <<>>
    /\ parsed = NoParse
    /\ RunIdle
    /\ FilterIdle

InitConfig ==
    /\ phase = "setup"
    /\ \/ /\ edits = 0
          /\ files = [global |-> EmptyFile, local |-> EmptyFile]
          /\ environ = EmptyEnviron
          /\ overrides = NoOverrides
       \/ /\ edits = MaxEntries
          /\ \E k \in CONFIG_KEYS :
               \E g \in Raws("global", k) \ {NotAString},
                  l \in Raws("local", k) \ {NotAString},
                  e \in Raws("env", k), c \in Raws("cli", k) :
                 /\ files = [global |-> WithKey(EmptyFile, k, g),
                             local |-> WithKey(EmptyFile, k, l)]
                 /\ environ = [EmptyEnviron EXCEPT ![k] = e.text]
                 /\ overrides = [NoOverrides EXCEPT ![k] = c]
    /\ Idle

\* the user replaces a config file by a directory, by text that is not
\* TOML, by a document whose `cos` is not a table, or by an empty document
SetFileState ==
    /\ phase = "setup" /\ edits < MaxEntries
    /\ \E layer \in {"global", "local"},
          state \in {"dir", "bad_toml", "cos_not_table", "ok"} :
         files' = [files EXCEPT ![layer] = [state |-> state, data |-> EmptyFile.data]]
    /\ edits' = edits + 1
    /\ UNCHANGED <<phase, environ, overrides, resolved, values, checks, exit_code>>
    /\ UNCHANGED <<cmdVars, quoteVars, runVars, filterVars>>

\* the user writes a key into a config file that is absent or parses
WriteFileKey ==
    /\ phase = "setup" /\ edits < MaxEntries
    /\ \E layer \in {"global", "local"}, k \in FileKeys :
         /\ files[layer].state \in {"absent", "ok"}
         /\ \E raw \in Raws(layer, k) :
              files' = [files EXCEPT ![layer] = WithKey(files[layer], k, raw)]
    /\ edits' = edits + 1
    /\ UNCHANGED <<phase, environ, overrides, resolved, values, checks, exit_code>>
    /\ UNCHANGED <<cmdVars, quoteVars, runVars, filterVars>>

\* the user exports a COS_* variable
ExportEnv ==
    /\ phase = "setup" /\ edits < MaxEntries
    /\ \E k \in CONFIG_KEYS : \E raw \in Raws("env", k) :
         environ' = [environ EXCEPT ![k] = raw.text]
    /\ edits' = edits + 1
    /\ UNCHANGED <<phase, files, overrides, resolved, values, checks, exit_code>>
    /\ UNCHANGED <<cmdVars, quoteVars, runVars, filterVars>>

\* the user types an option: the caller passes it in `overrides`
PassOption ==
    /\ phase = "setup" /\ edits < MaxEntries
    /\ \E k \in DOMAIN overrides : \E raw \in Raws("cli", k) :
         overrides' = [overrides EXCEPT ![k] = raw]
    /\ edits' = edits + 1
    /\ UNCHANGED <<phase, files, environ, resolved, values, checks, exit_code>>
    /\ UNCHANGED <<cmdVars, quoteVars, runVars, filterVars>>

\* resolve_effective_config(repo_hint, overrides)
Resolve ==
    /\ phase = "setup"
    /\ resolved' \in resolve_effective_config(files, environ, overrides)
    /\ phase' = "resolved"
    /\ UNCHANGED <<edits, files, environ, overrides, values, checks, exit_code>>
    /\ UNCHANGED <<cmdVars, quoteVars, runVars, filterVars>>

\* values = _resolved_values_with_backend_defaults(resolved)
BackendDefaults ==
    /\ phase = "resolved"
    /\ resolved.status = "ok"
    /\ values' = _resolved_values_with_backend_defaults(resolved)
    /\ phase' = "effective"
    /\ UNCHANGED <<edits, files, environ, overrides, resolved, checks, exit_code>>
    /\ UNCHANGED <<cmdVars, quoteVars, runVars, filterVars>>

\* checks = validate_config_files(repo_hint); the TOML decoder's error
\* leaves the command uncaught
Validate ==
    /\ phase = "setup"
    /\ checks' \in validate_config_files(files)
    /\ phase' = IF checks'.raised THEN "crashed" ELSE "validated"
    /\ UNCHANGED <<edits, files, environ, overrides, resolved, values, exit_code>>
    /\ UNCHANGED <<cmdVars, quoteVars, runVars, filterVars>>

\* config_validate_command, lines 471-486: summary, report, typer.Exit
ValidateExit ==
    /\ phase = "validated"
    /\ exit_code' = ValidateExitCode(checks.list)
    /\ phase' = "exited"
    /\ UNCHANGED <<edits, files, environ, overrides, resolved, values, checks>>
    /\ UNCHANGED <<cmdVars, quoteVars, runVars, filterVars>>

NextConfig ==
    \/ SetFileState \/ WriteFileKey \/ ExportEnv \/ PassOption
    \/ Resolve \/ BackendDefaults \/ Validate \/ ValidateExit

SpecConfig == InitConfig /\ [][NextConfig]_vars

(***************************************************************************)
(* Configuration claims.  They are stated over what the invocation found   *)
(* (files, environ, overrides), not over the operators above.              *)
(***************************************************************************)

\* a file supplies a key when it is read and holds the key
FileHolds(file, k) == file.state = "ok" /\ file.data[k].kind # "absent"
\* an override that is a string with something in it
CliExplicit(k) == overrides[k].kind = "str" /\ Strip(overrides[k].text) # <<>>
CliUnset(k) == overrides[k].kind = "absent"
EnvNonEmpty(k) == Strip(environ[k]) # <<>>

\* value and provenance the layers below the CLI give key k
BelowCli(k) ==
    IF EnvNonEmpty(k) THEN <<Strip(environ[k]), "env">>
    ELSE IF FileHolds(files.local, k)
    THEN <<Strip(files.local.data[k].text), "local_config">>
    ELSE IF FileHolds(files.global, k)
    THEN <<Strip(files.global.data[k].text), "global_config">>
    ELSE <<DEFAULTS[k], "default">>

Outcome(k) == <<resolved.values[k], resolved.sources[k]>>

ResolvedOk == phase \in {"resolved", "effective"} /\ resolved.status = "ok"
ResolveFailed == phase = "resolved" /\ resolved.status = "error"

\* C1: every key resolves to the (trimmed) value of the highest layer that
\* supplies it, default < global file < local file < environment < CLI,
\* with that layer as provenance; an environment variable supplies a key
\* only when non-empty after trimming; with no input at all every key has
\* its default and provenance "default".
C1_Precedence ==
    ResolvedOk =>
      \A k \in CONFIG_KEYS :
        /\ CliExplicit(k) => Outcome(k) = <<Strip(overrides[k].text), "cli">>
        /\ CliUnset(k) => Outcome(k) = BelowCli(k)
        /\ (CliUnset(k) /\ ~EnvNonEmpty(k))
             => resolved.sources[k] \in {"local_config", "global_config", "default"}
        /\ (CliUnset(k) /\ ~EnvNonEmpty(k) /\ ~FileHolds(files.local, k)
              /\ ~FileHolds(files.global, k))
             => Outcome(k) = <<DEFAULTS[k], "default">>

\* all four layers supply one key, and the CLI value wins over three
\* different lower values
C1_Witness ==
    /\ ResolvedOk
    /\ \E k \in CONFIG_KEYS :
         /\ FileHolds(files.global, k) /\ FileHolds(files.local, k)
         /\ EnvNonEmpty(k) /\ CliExplicit(k)
         /\ Strip(environ[k]) # Strip(overrides[k].text)
         /\ Strip(files.local.data[k].text) # Strip(environ[k])
         /\ resolved.sources[k] = "cli"

\* C2 (as claimed): an override that is None or the empty string does not
\* override: the key keeps the value and provenance of the lower layers.
C2_EmptyCliDoesNotOverride ==
    ResolvedOk =>
      \A k \in CONFIG_KEYS :
        (CliUnset(k) \/ overrides[k] = Str(<<>>)) => Outcome(k) = BelowCli(k)

(***************************************************************************)
(* What is wrong with an input, told from the input alone.                 *)
(***************************************************************************)

\* the stripped text layer `ly` gives key k, when it gives a string
LayerText(ly, k) ==
    CASE ly = "global" -> Strip(files.global.data[k].text)
      [] ly = "local" -> Strip(files.local.data[k].text)
      [] ly = "env" -> Strip(environ[k])
      [] ly = "cli" -> Strip(overrides[k].text)

\* layer `ly` gives key k a string
GivesString(ly, k) ==
    CASE ly = "global" -> FileHolds(files.global, k) /\ files.global.data[k].kind = "str"
      [] ly = "local" -> FileHolds(files.local, k) /\ files.local.data[k].kind = "str"
      [] ly = "env" -> EnvNonEmpty(k)
      [] ly = "cli" -> overrides[k].kind = "str"

\* the name the error message gives the layer
SourceName(ly, k) ==
    CASE ly = "global" -> GlobalPath
      [] ly = "local" -> LocalPath
      [] ly = "env" -> "environment variable " \o ENV_VAR_MAP[k]
      [] ly = "cli" -> "CLI option"

AllLayers == {"global", "local", "env", "cli"}

\* layer, key pairs that give an enumerated key a value outside its set
OutOfSet ==
    {p \in AllLayers \X EnumKeys :
        GivesString(p[1], p[2]) /\ LayerText(p[1], p[2]) \notin Allowed(p[2])}

\* the same, leaving out an override that is empty after trimming
OutOfSetNonEmpty == {p \in OutOfSet : LayerText(p[1], p[2]) # <<>>}

\* a known key of a file that is read holds a value that is not a string
NonStringInFile ==
    \E f \in {files.global, files.local} :
      f.state = "ok" /\ \E k \in CONFIG_KEYS : f.data[k].kind = "other"

\* a file that exists and cannot be loaded at all
BrokenFile ==
    \E f \in {files.global, files.local} : f.state \in {"dir", "bad_toml", "cos_not_table"}

UnknownIn(file) == {k \in UnknownKeys : file.data[k].kind # "absent"}
\* the file loads: it is TOML, its section is a table and its known keys hold
\* valid strings
Loads(file) ==
    /\ file.state = "ok"
    /\ \A k \in CONFIG_KEYS :
         file.data[k].kind = "absent"
         \/ (file.data[k].kind = "str"
             /\ (k \in EnumKeys => Strip(file.data[k].text) \in Allowed(k)))
FileOf(label) == IF label = "global" THEN files.global ELSE files.local
Records(status) == {i \in DOMAIN checks.list : checks.list[i].status = status}

\* C4: unknown keys of a config file never make resolution or validation
\* fail and are never stored: a resolved configuration has exactly the
\* known keys; validate_config_files gives one "warn" record per unknown
\* key of a file that loads and no "fail" record for such a file; and
\* `config validate` exits 1 exactly when a record is "fail", else 0.
C4_UnknownKeys ==
    /\ ResolvedOk =>
         /\ DOMAIN resolved.values = CONFIG_KEYS
         /\ DOMAIN resolved.sources = CONFIG_KEYS
    /\ phase = "effective" => DOMAIN values = CONFIG_KEYS
    /\ (phase = "resolved" /\ OutOfSet = {} /\ ~NonStringInFile /\ ~BrokenFile)
         => resolved.status = "ok"
    /\ phase \in {"validated", "exited"} =>
         \A label \in {"global", "local"} :
           LET warns == {i \in Records("warn") :
                           checks.list[i].name = label \o "_config_unknown_key"}
               fails == {i \in Records("fail") :
                           checks.list[i].name = label \o "_config_file"}
           IN IF Loads(FileOf(label))
              THEN /\ fails = {}
                   /\ \A k \in UnknownIn(FileOf(label)) :
                        Cardinality({i \in warns : checks.list[i].subject = k}) = 1
                   /\ Cardinality(warns) = Cardinality(UnknownIn(FileOf(label)))
              ELSE warns = {}
    /\ phase = "exited" =>
         /\ exit_code \in {0, 1}
         /\ exit_code = 1 <=> Records("fail") # {}

\* a file whose only problem is an unknown key (holding a non-string):
\* a warning, and exit code 0
C4_Witness ==
    /\ phase = "exited"
    /\ exit_code = 0
    /\ Records("warn") # {}
    /\ \E k \in UnknownIn(files.local) : files.local.data[k] = NotAString

EffectiveBackend == resolved.values["codex_backend"]

\* C5: the backend fallback goes by provenance: with backend docker,
\* app_mcp_url becomes docker_app_mcp_url exactly when its provenance is
\* "default", and repo becomes docker_workdir exactly when its provenance is
\* "default" and it is empty; a value a file, the environment or the CLI
\* supplied stays even when it equals the default; with backend local
\* nothing changes; no other key changes; and the ResolvedConfig read is
\* still the one resolution returned.
C5_BackendDefaults ==
    phase = "effective" =>
      /\ EffectiveBackend = <<"docker">> =>
           /\ values["app_mcp_url"] =
                IF resolved.sources["app_mcp_url"] = "default"
                THEN resolved.values["docker_app_mcp_url"]
                ELSE resolved.values["app_mcp_url"]
           /\ values["repo"] =
                IF resolved.sources["repo"] = "default" /\ resolved.values["repo"] = <<>>
                THEN resolved.values["docker_workdir"]
                ELSE resolved.values["repo"]
           /\ \A k \in CONFIG_KEYS \ {"app_mcp_url", "repo"} :
                values[k] = resolved.values[k]
      /\ EffectiveBackend = <<"local">> => values = resolved.values
      /\ resolved.status = "ok"
      /\ \A k \in CONFIG_KEYS : Outcome(k) \in {BelowCli(k), <<Strip(overrides[k].text), "cli">>}

\* docker backend, and the environment supplies an app_mcp_url equal to the
\* default: it is kept, not replaced by the docker URL
C5_Witness ==
    /\ phase = "effective"
    /\ EffectiveBackend = <<"docker">>
    /\ resolved.sources["app_mcp_url"] = "env"
    /\ resolved.values["app_mcp_url"] = DEFAULT_APP_MCP_URL
    /\ values["app_mcp_url"] = DEFAULT_APP_MCP_URL
    /\ values["repo"] = resolved.values["docker_workdir"]

(***************************************************************************)
(* The quoting model: toml_quote applied to a text, and a TOML parser      *)
(* reading the result.                                                     *)
(***************************************************************************)

InitQuote ==
    /\ phase = "quote"
    /\ edits = 0
    /\ files = [global |-> EmptyFile, local |-> EmptyFile]
    /\ environ = EmptyEnviron
    /\ overrides = NoOverrides
    /\ resolved = None
    /\ values = <<>>
    /\ checks = [raised |-> FALSE, list |-> <<>>]
    /\ exit_code = -1
    /\ args = NoArgs
    /\ user_prompt = <<>>
    /\ passthrough = <<>>
    /\ cmd = NoCmd
    /\ value \in QuoteInputs
    /\ quoted = <<>>
    /\ parsed = NoParse
    /\ RunIdle
    /\ FilterIdle

\* quoted = toml_quote(value)
Quote ==
    /\ phase = "quote"
    /\ quoted' = toml_quote(value)
    /\ phase' = "quoted"
    /\ UNCHANGED <<edits, cfgVars, cmdVars, runVars, filterVars, value, parsed>>

\* the receiving parser reads the quoted text
Parse ==
    /\ phase = "quoted"
    /\ parsed' = ParseBasicString(quoted)
    /\ phase' = "parsed"
    /\ UNCHANGED <<edits, cfgVars, cmdVars, runVars, filterVars, value, quoted>>

NextQuote == Quote \/ Parse

SpecQuote == InitQuote /\ [][NextQuote]_vars

\* the characters toml_quote escapes, and the ordinary ones
EscapedByQuote == {"\\", "\"", "\n", "\r", "\t"}
Quotable(v) == \A i \in DOMAIN v : v[i] \notin IllegalInBasicString \ EscapedByQuote

\* C9: for every text, parsing toml_quote(text) as a TOML
\* basic string gives the text back.
C9_RoundTrip ==
    phase = "parsed" => (parsed.ok /\ parsed.text = value)

\* The round trip succeeds for every text without a control character other
\* than newline, carriage return and tab.
QuoteRoundTripsEscaped ==
    phase = "parsed" => (Quotable(value) => (parsed.ok /\ parsed.text = value))

(***************************************************************************)
(* The command model: a namespace like the one the commands hand over,     *)
(* changed in a few places, then build_codex_command.                      *)
(***************************************************************************)

MaxDeviations == 2

\* the namespace of a plain run, and of a run with every flag of its
\* command given
ArgsStub(command, backend, flags) ==
    [ command |-> command,
      repo |-> <<>>,
      model |-> <<>>,
      sandbox |-> <<"workspace-write">>,
      approval |-> <<"on-request">>,
      codex_backend |-> backend,
      docker_container |-> <<"task-app">>,
      docker_workdir |-> <<"/app">>,
      docker_codex_binary |-> <<"codex">>,
      docker_home |-> <<>>,
      interactive_tty |-> TRUE,
      dangerous |-> flags,
      search |-> flags,
      json |-> flags,
      skip_git_repo_check |-> flags,
      resume_session_id |-> IF flags THEN <<"abc-123">> ELSE <<>>,
      resume_last |-> flags,
      resume_all |-> flags,
      no_app_mcp |-> FALSE,
      app_mcp_name |-> <<"task-management-tools">>,
      app_mcp_url |-> <<"http://localhost:8091/mcp">>,
      app_mcp_bearer_env |-> <<>> ]

\* the values a field is changed to
ArgChoices ==
    [ command |-> {"doctor"},
      repo |-> {<<"/r">>, <<" ", "/r", "\n">>, <<" ">>},
      model |-> {<<"gpt">>, <<" ", "gpt">>},
      sandbox |-> {<<"read-only">>},
      approval |-> {<<"never">>},
      codex_backend |-> {<<" ", "Docker", "\n">>, <<"LOCAL">>, <<"podman">>, <<>>},
      docker_container |-> {<<>>, <<" ">>, <<" ", "box">>},
      docker_workdir |-> {<<>>, <<"/w", " ">>},
      docker_codex_binary |-> {<<"codex2">>, <<" ">>},
      docker_home |-> {<<"/home/x">>, <<" ">>},
      interactive_tty |-> {FALSE},
      dangerous |-> {TRUE, FALSE},
      search |-> {TRUE, FALSE},
      json |-> {TRUE, FALSE},
      skip_git_repo_check |-> {TRUE, FALSE},
      resume_session_id |-> {<<>>, <<" ", "s-1">>},
      resume_last |-> {TRUE, FALSE},
      resume_all |-> {TRUE, FALSE},
      no_app_mcp |-> {TRUE},
      app_mcp_name |-> {<<>>, <<" ">>, <<" ", "task-tools", "\n">>,
                        <<"bad", " ", "name">>, <<"a", ".", "b">>},
      app_mcp_url |-> {<<>>, <<" ">>, <<"http://x/mcp">>, <<"http://x/", "\"", "q", "\\">>},
      app_mcp_bearer_env |-> {<<"TOKEN_ENV">>, <<" ", "TOKEN_ENV">>, <<" ">>} ]

PromptChoices == {<<>>, <<" ", "\n">>, <<" ", "fix", " ", "it", "\n">>}
PassthroughChoices ==
    { << <<"--color">>, <<"always">> >>,
      << <<"--color=", "always">> >>,
      << <<"--colors">> >>,
      << <<"-c">>, <<"mcp_servers.", "x", ".enabled=false">> >> }

InitCmd ==
    /\ phase = "cmd_setup"
    /\ edits = 0
    /\ files = [global |-> EmptyFile, local |-> EmptyFile]
    /\ environ = EmptyEnviron
    /\ overrides = NoOverrides
    /\ resolved = None
    /\ values = <<>>
    /\ checks = [raised |-> FALSE, list |-> <<>>]
    /\ exit_code = -1
    /\ \E command \in {"chat", "exec", "resume"}, backend \in {<<"local">>, <<"docker">>},
          flags \in BOOLEAN :
          args = ArgsStub(command, backend, flags)
    /\ user_prompt = <<"wrapped", " ", "prompt">>
    /\ passthrough = <<>>
    /\ cmd = NoCmd
    /\ value = <<>>
    /\ quoted = <<>>
    /\ parsed = NoParse
    /\ RunIdle
    /\ FilterIdle

SetArg ==
    /\ phase = "cmd_setup" /\ edits < MaxDeviations
    /\ \E f \in DOMAIN ArgChoices : \E v \in ArgChoices[f] :
          /\ args[f] # v
          /\ args' = [args EXCEPT ![f] = v]
    /\ edits' = edits + 1
    /\ UNCHANGED <<phase, cfgVars, user_prompt, passthrough, cmd, quoteVars, runVars, filterVars>>

SetPrompt ==
    /\ phase = "cmd_setup" /\ edits < MaxDeviations
    /\ \E p \in PromptChoices : user_prompt' = p
    /\ edits' = edits + 1
    /\ UNCHANGED <<phase, cfgVars, args, passthrough, cmd, quoteVars, runVars, filterVars>>

SetPassthrough ==
    /\ phase = "cmd_setup" /\ edits < MaxDeviations
    /\ \E p \in PassthroughChoices : passthrough' = p
    /\ edits' = edits + 1
    /\ UNCHANGED <<phase, cfgVars, args, user_prompt, cmd, quoteVars, runVars, filterVars>>

\* cmd = build_codex_command(args, user_prompt, passthrough)
BuildCodexCommand ==
    /\ phase = "cmd_setup"
    /\ cmd' = build_codex_command(args, user_prompt, passthrough)
    /\ phase' = "built"
    /\ UNCHANGED <<edits, cfgVars, args, user_prompt, passthrough, quoteVars, runVars, filterVars>>

NextCmd == SetArg \/ SetPrompt \/ SetPassthrough \/ BuildCodexCommand

SpecCmd == InitCmd /\ [][NextCmd]_vars

(***************************************************************************)
(* Properties of the built command                                         *)
(***************************************************************************)

BuiltOk == phase = "built" /\ cmd.status = "ok"

McpName == Strip(args.app_mcp_name)
McpUrl == Strip(args.app_mcp_url)
McpBearer == Strip(args.app_mcp_bearer_env)
InjectionOn == ~args.no_app_mcp /\ McpName # <<>> /\ McpUrl # <<>>
Prompt == Strip(user_prompt)

Opt(cond, tokens) == IF cond THEN tokens ELSE <<>>

\* an argument containing "mcp_servers."
IsMcpToken(t) == \E i \in DOMAIN t : t[i] = "mcp_servers."

\* the -c pairs of an enabled injection
ClaimedMcpPairs ==
    << <<"-c">>, <<"mcp_servers.">> \o McpName \o <<".url=">> \o toml_quote(McpUrl),
       <<"-c">>, <<"mcp_servers.">> \o McpName \o <<".enabled=true">> >>
    \o Opt(McpBearer # <<>>,
           << <<"-c">>, <<"mcp_servers.">> \o McpName \o <<".bearer_token_env_var=">>
                          \o toml_quote(McpBearer) >>)

ClaimedInner ==
    <<CodexBinary(args)>>
    \o Opt(args.command = "exec", <<<<"exec">>>>)
    \o Opt(args.command = "resume", <<<<"resume">>>>)
    \o Opt(Strip(args.repo) # <<>>, <<<<"--cd">>, Strip(args.repo)>>)
    \o Opt(Strip(args.model) # <<>>, <<<<"-m">>, Strip(args.model)>>)
    \o <<<<"--sandbox">>, args.sandbox>>
    \o Opt(args.command # "exec", <<<<"--ask-for-approval">>, args.approval>>)
    \o Opt(args.dangerous, <<<<"--dangerously-bypass-approvals-and-sandbox">>>>)
    \o Opt(args.command # "exec" /\ args.search, <<<<"--search">>>>)
    \o Opt(args.command = "exec" /\ args.json, <<<<"--json">>>>)
    \o Opt(args.command = "exec" /\ args.skip_git_repo_check, <<<<"--skip-git-repo-check">>>>)
    \o Opt(args.command = "resume" /\ args.resume_last, <<<<"--last">>>>)
    \o Opt(args.command = "resume" /\ args.resume_all, <<<<"--all">>>>)
    \o Opt(args.command = "resume" /\ Strip(args.resume_session_id) # <<>>,
           <<Strip(args.resume_session_id)>>)
    \o Opt(InjectionOn, ClaimedMcpPairs)
    \o passthrough
    \o Opt(Prompt # <<>>, <<Prompt>>)

\* C6: for chat, exec and resume and every combination of flags, the inner
\* argument vector of a built command is, in this order: the binary, the
\* subcommand token, --cd <repo> and -m <model> when not empty, --sandbox,
\* --ask-for-approval for chat/resume, the bypass flag, --search for
\* chat/resume, --json then --skip-git-repo-check for exec, --last, --all and
\* the session id for resume, the MCP -c pairs, the passthrough arguments,
\* and the trimmed prompt when it is not empty.  With the local backend the
\* inner vector is the whole command; with docker it is what follows the
\* container name.
C6_InnerOrder ==
    BuiltOk =>
        LET n == Len(ClaimedInner)
            m == Len(cmd.argv)
        IN  /\ m >= n
            /\ SubSeq(cmd.argv, m - n + 1, m) = ClaimedInner
            /\ BackendOf(args) = <<"local">> => m = n
            /\ BackendOf(args) = <<"docker">> =>
                  (m > n /\ cmd.argv[m - n] = Strip(args.docker_container))

\* a resume run with --last, --all, a session id, a passthrough argument and
\* a prompt, and an exec run with both of its flags
C6_Witness ==
    /\ BuiltOk
    /\ \/ /\ args.command = "resume"
          /\ args.resume_last /\ args.resume_all /\ Strip(args.resume_session_id) # <<>>
          /\ InjectionOn /\ passthrough # <<>> /\ Prompt # <<>>
       \/ /\ args.command = "exec"
          /\ args.json /\ args.skip_git_repo_check /\ Strip(args.repo) # <<>>

\* C7: build_codex_command fails whenever the trimmed MCP server name is not
\* empty and does not match the pattern, whatever the command, the backend
\* and the flags; an empty name never fails for the name and puts no MCP
\* argument on the command line.
C7_InvalidNameFails ==
    phase = "built" =>
        /\ (McpName # <<>> /\ ~MCP_SERVER_NAME_PATTERN(McpName)) => cmd.status = "error"
        /\ McpName = <<>> =>
              /\ cmd.error # "invalid_mcp_server_name"
              /\ cmd.status = "ok" =>
                    \A i \in DOMAIN cmd.argv :
                        IsMcpToken(cmd.argv[i]) => cmd.argv[i] \in Range(passthrough)

\* the part of a built command that comes before the passthrough arguments
\* and the prompt
BuilderPart ==
    SubSeq(cmd.argv, 1, Len(cmd.argv) - Len(passthrough) - (IF Prompt # <<>> THEN 1 ELSE 0))

McpPositions == {i \in DOMAIN BuilderPart : IsMcpToken(BuilderPart[i])}

\* C8: with injection enabled and a non-empty name and URL, the command
\* holds exactly -c mcp_servers.<name>.url=<quoted url>, then
\* -c mcp_servers.<name>.enabled=true, then
\* -c mcp_servers.<name>.bearer_token_env_var=<quoted env name> iff a bearer
\* variable name is configured, the name unquoted; with injection disabled
\* or an empty name or URL the builder produces no argument containing
\* "mcp_servers.".
C8_McpAllOrNothing ==
    BuiltOk =>
        IF InjectionOn
        THEN LET k == Len(ClaimedMcpPairs)
                 b == Len(BuilderPart)
             IN  /\ Len(ClaimedMcpPairs) = IF McpBearer # <<>> THEN 6 ELSE 4
                 /\ b >= k
                 /\ SubSeq(BuilderPart, b - k + 1, b) = ClaimedMcpPairs
                 /\ McpPositions = {b - k + 2 * j : j \in 1..(k \div 2)}
                 /\ BuilderPart[b - k + 2][2] = McpName[1]
        ELSE McpPositions = {}

\* an injection with a bearer variable and a URL that needs escaping, and a
\* disabled injection
C8_Witness ==
    /\ BuiltOk
    /\ \/ InjectionOn /\ McpBearer # <<>> /\ "\"" \in Range(McpUrl)
       \/ args.no_app_mcp /\ McpName # <<>> /\ McpUrl # <<>>

\* C10: with the docker backend a built command is docker, exec, -i, then -t
\* iff the command is chat or resume, then -e HOME=<override> iff a home
\* override is set, then -w <workdir> iff the working directory is not
\* empty, then the container name, then the inner command unchanged; with
\* the local backend it is the inner command.
C10_DockerWrap ==
    BuiltOk =>
        LET inner == _build_inner_codex_command(args, user_prompt, passthrough).argv IN
        /\ BackendOf(args) \in {<<"local">>, <<"docker">>}
        /\ BackendOf(args) = <<"local">> => cmd.argv = inner
        /\ BackendOf(args) = <<"docker">> =>
              cmd.argv = <<<<"docker">>, <<"exec">>, <<"-i">>>>
                         \o Opt(args.command \in {"chat", "resume"}, <<<<"-t">>>>)
                         \o Opt(Strip(args.docker_home) # <<>>,
                                <<<<"-e">>, <<"HOME=">> \o Strip(args.docker_home)>>)
                         \o Opt(Strip(args.docker_workdir) # <<>>,
                                <<<<"-w">>, Strip(args.docker_workdir)>>)
                         \o <<Strip(args.docker_container)>>
                         \o inner

\* an exec run in a container with a home override
C10_Witness ==
    /\ BuiltOk
    /\ BackendOf(args) = <<"docker">>
    /\ args.command = "exec"
    /\ Strip(args.docker_home) # <<>>
    /\ Strip(args.docker_workdir) # <<>>

(***************************************************************************)
(* parser.py: running the child, directly or through the pty relay         *)
(* (_run_with_green_pty).  One action per call that can end the function,  *)
(* each with the outcomes the call has: it returns, or it raises.          *)
(***************************************************************************)

MaxRelayed == 1

\* what a child ends with (subprocess returncode: negative when a signal
\* ended it)
ChildStatuses == {0, 1, -9}

\* the chunks of child output the relay reads
ChildChunks == {<<"x">>, <<"ESC", "[", "0", "m", "x">>}

_GREEN_THEME_SETUP == <<"SETUP">>
_GREEN_THEME_RESET == <<"RESET">>

\* the exit code masked to a byte
ReturnCode_Masked(status) == status % 256

\* int(completed.returncode), int(process.wait())
ReturnCode(status) == status

\* the relay whenever standard output is a terminal
RelayUsable_StdoutOnly == host.has_posix_tty /\ host.stdout_tty

\* lines 150-156: _HAS_POSIX_TTY and both standard streams are terminals
RelayUsable == host.has_posix_tty /\ host.stdin_tty /\ host.stdout_tty

\* an exception leaves the function (and the program: nothing catches it)
Propagate ==
    /\ phase' = "crashed"
    /\ UNCHANGED exit_code

\* subprocess.run(cmd, check=False, env=env), lines 151-152, 155-156 and
\* 388-389: the child runs to its end, or cannot be started
RunDirect ==
    /\ \/ phase = "direct"
       \/ phase = "relay_entry" /\ ~RelayUsable
    /\ \/ \E status \in ChildStatuses :
             /\ spawned' = Append(spawned, "agent")
             /\ term' = [term EXCEPT !.child = EndedWith(status)]
             /\ exit_code' = ReturnCode(status)
             /\ phase' = "exited"
       \/ Propagate /\ UNCHANGED <<spawned, term>>
    /\ UNCHANGED <<edits, files, environ, overrides, resolved, values, checks>>
    /\ UNCHANGED <<cmdVars, quoteVars, filterVars, inv, host, touched, stdout>>

\* lines 159-161: pty.openpty(), _copy_winsize
OpenPty ==
    /\ phase = "relay_entry" /\ RelayUsable
    /\ \/ /\ term' = [term EXCEPT !.master = "open", !.slave = "open"]
          /\ phase' = "popen"
          /\ UNCHANGED exit_code
       \/ Propagate /\ UNCHANGED term
    /\ UNCHANGED <<edits, files, environ, overrides, resolved, values, checks>>
    /\ UNCHANGED <<cmdVars, quoteVars, filterVars, inv, host, spawned, touched, stdout>>

\* lines 163-171: subprocess.Popen on the slave, then os.close(slave_fd)
StartChild ==
    /\ phase = "popen"
    /\ \/ /\ spawned' = Append(spawned, "agent")
          /\ term' = [term EXCEPT !.slave = "closed"]
          /\ phase' = "tcgetattr"
          /\ UNCHANGED exit_code
       \/ Propagate /\ UNCHANGED <<spawned, term>>
    /\ UNCHANGED <<edits, files, environ, overrides, resolved, values, checks>>
    /\ UNCHANGED <<cmdVars, quoteVars, filterVars, inv, host, touched, stdout>>

\* lines 173-180: termios.tcgetattr, then the SIGWINCH handler is replaced
\* and the theme set up (a failing write to stdout is swallowed by
\* _stdout_write)
InstallTheme ==
    /\ phase = "tcgetattr"
    /\ \/ /\ term' = [term EXCEPT !.sigwinch = "relay"]
          /\ stdout' = Append(stdout, _GREEN_THEME_SETUP)
          /\ phase' = "setraw"
          /\ UNCHANGED exit_code
       \/ Propagate /\ UNCHANGED <<term, stdout>>
    /\ UNCHANGED <<edits, files, environ, overrides, resolved, values, checks>>
    /\ UNCHANGED <<cmdVars, quoteVars, filterVars, inv, host, spawned, touched>>

\* line 183, inside the try: tty.setraw(stdin_fd)
SetRaw ==
    /\ phase = "setraw"
    /\ \/ /\ term' = [term EXCEPT !.mode = "raw"]
          /\ phase' = "select"
       \/ /\ term' = [term EXCEPT !.pending = Pending("raise", 0)]
          /\ phase' = "finally"
    /\ UNCHANGED <<edits, cfgVars, cmdVars, quoteVars, filterVars>>
    /\ UNCHANGED <<inv, host, spawned, touched, stdout>>

\* select that reports the real terminal alone once its input has ended
ReadySets_StdinAlone(t) ==
    IF t.stdin_eof THEN {{"stdin"}}
    ELSE {ready \in (SUBSET {"master", "stdin"}) \ {{}} :
             "master" \in ready => (t.relayed < MaxRelayed \/ t.child.ended)}

\* line 185: what select.select([master_fd, stdin_fd], [], []) can return:
\* every descriptor that is readable is reported.  The master is readable
\* while the child's output is pending and for good once the child has gone
\* and the slave side is closed; the real terminal is readable for good once
\* its input has ended
ReadySets(t) ==
    {ready \in (SUBSET {"master", "stdin"}) \ {{}} :
        /\ "master" \in ready => (t.relayed < MaxRelayed \/ t.child.ended)
        /\ t.child.ended => "master" \in ready
        /\ t.stdin_eof => "stdin" \in ready}

\* the child exits (its end of the pty, the slave side, is closed with it)
\* while the relay waits in select
ChildExits ==
    /\ phase = "select"
    /\ ~term.child.ended
    /\ \E status \in ChildStatuses : term' = [term EXCEPT !.child = EndedWith(status)]
    /\ UNCHANGED <<phase, edits, cfgVars, cmdVars, quoteVars, filterVars>>
    /\ UNCHANGED <<inv, host, spawned, touched, stdout>>

\* line 185: select.select([master_fd, stdin_fd], [], []) returns the ready
\* descriptors, or is interrupted
Select ==
    /\ phase = "select"
    /\ \/ \E ready \in ReadySets(term) :
             /\ term' = [term EXCEPT !.ready = ready]
             /\ phase' = IF "stdin" \in ready THEN "read_stdin" ELSE "read_master"
       \/ /\ term' = [term EXCEPT !.pending = Pending("raise", 0)]
          /\ phase' = "finally"
    /\ UNCHANGED <<edits, cfgVars, cmdVars, quoteVars, filterVars>>
    /\ UNCHANGED <<inv, host, spawned, touched, stdout>>

\* lines 186-189: the user's input is passed to the child, a zero-length
\* read (the input has ended) is passed over; the read or the write may raise
ReadStdin ==
    /\ phase = "read_stdin"
    /\ \/ /\ phase' = IF "master" \in term.ready THEN "read_master" ELSE "select"
          /\ \/ ~term.stdin_eof /\ UNCHANGED term
             \/ term' = [term EXCEPT !.stdin_eof = TRUE]
       \/ /\ term' = [term EXCEPT !.pending = Pending("raise", 0)]
          /\ phase' = "finally"
    /\ UNCHANGED <<edits, cfgVars, cmdVars, quoteVars, filterVars>>
    /\ UNCHANGED <<inv, host, spawned, touched, stdout>>

\* lines 120-124, _stdout_write: the bytes reach the terminal, or os.write
\* raises OSError and the error is dropped
_stdout_write(out, bytes) == {Append(out, bytes), out}

\* lines 190-200: a chunk of child output is filtered and written; no data,
\* or the error EIO, ends the loop (the slave side is closed: the child has
\* gone); any other error is raised
ReadMaster ==
    /\ phase = "read_master"
    /\ \/ \E chunk \in ChildChunks :
             /\ term.relayed < MaxRelayed
             /\ stdout' \in _stdout_write(stdout, _apply_green_theme_to_chunk(chunk))
             /\ term' = [term EXCEPT !.relayed = @ + 1]
             /\ phase' = "select"
       \/ /\ term.child.ended
          /\ phase' = "wait"
          /\ UNCHANGED <<term, stdout>>
       \/ /\ term' = [term EXCEPT !.pending = Pending("raise", 0)]
          /\ phase' = "finally"
          /\ UNCHANGED stdout
    /\ UNCHANGED <<edits, cfgVars, cmdVars, quoteVars, filterVars>>
    /\ UNCHANGED <<inv, host, spawned, touched>>

\* line 201: return int(process.wait())
WaitChild ==
    /\ phase = "wait"
    /\ term.child.ended
    /\ \/ term' = [term EXCEPT !.pending = Pending("return", ReturnCode(term.child.status))]
       \/ term' = [term EXCEPT !.pending = Pending("raise", 0)]
    /\ phase' = "finally"
    /\ UNCHANGED <<edits, cfgVars, cmdVars, quoteVars, filterVars>>
    /\ UNCHANGED <<inv, host, spawned, touched, stdout>>

\* lines 202-209, the finally block: tcsetattr, the previous SIGWINCH
\* handler, the reset sequence, os.close(master_fd); then the pending return
\* or exception.  When tcsetattr raises, the rest of the block is skipped.
Finally ==
    /\ phase = "finally"
    /\ \/ /\ term' = [term EXCEPT !.mode = "original", !.sigwinch = "previous",
                                   !.master = "closed"]
          /\ stdout' = Append(stdout, _GREEN_THEME_RESET)
          /\ IF term.pending.kind = "return"
             THEN exit_code' = term.pending.code /\ phase' = "exited"
             ELSE Propagate
       \/ Propagate /\ UNCHANGED <<term, stdout>>
    /\ UNCHANGED <<edits, files, environ, overrides, resolved, values, checks>>
    /\ UNCHANGED <<cmdVars, quoteVars, filterVars, inv, host, spawned, touched>>

Relay ==
    \/ OpenPty \/ StartChild \/ InstallTheme \/ SetRaw \/ Select
    \/ ReadStdin \/ ReadMaster \/ WaitChild \/ Finally

\* the relay's steps are taken as long as one can be: the tool keeps running
RelayFairness == WF_vars(Relay)

\* the process as _run_with_green_pty finds it
Hosts ==
    [ has_posix_tty : BOOLEAN, stdin_tty : BOOLEAN, stdout_tty : BOOLEAN,
      stdin_text : {<<>>}, system_prompt : {"absent"}, workspace_id : {<<>>},
      codex_on_path : {TRUE}, docker_on_path : {TRUE} ]

InitRelay ==
    /\ phase = "relay_entry"
    /\ edits = 0
    /\ files = [global |-> EmptyFile, local |-> EmptyFile]
    /\ environ = EmptyEnviron
    /\ overrides = NoOverrides
    /\ resolved = None
    /\ values = <<>>
    /\ checks = [raised |-> FALSE, list |-> <<>>]
    /\ exit_code = -1
    /\ args = NoArgs
    /\ user_prompt = <<>>
    /\ passthrough = <<>>
    /\ cmd = Built(<<<<"codex">>>>)
    /\ value = <<>>
    /\ quoted = <<>>
    /\ parsed = NoParse
    /\ inv = NoInv
    /\ host \in Hosts
    /\ spawned = <<>>
    /\ touched = {}
    /\ term = TermAtRest
    /\ stdout = <<>>
    /\ FilterIdle

NextRelay == RunDirect \/ Relay \/ ChildExits

SpecRelay == InitRelay /\ [][NextRelay]_vars

SpecRelayFair == SpecRelay /\ RelayFairness

\* the relay, or the run, is over: a value was returned or an exception
\* left the program
Ended == phase \in {"exited", "crashed"}

\* C17: on every exit path of the pty relay (end of output, child exit, an
\* exception or interrupt in the loop) the terminal's original mode is
\* restored, the previous SIGWINCH handler is reinstalled and the reset
\* sequence is written before the relay returns or propagates; control never
\* comes back with the terminal raw or the relay's handler installed.
C17_TeardownOnEveryExit ==
    Ended =>
        /\ term.mode = "original"
        /\ term.sigwinch = "previous"
        /\ _GREEN_THEME_SETUP \in Range(stdout) => stdout[Len(stdout)] = _GREEN_THEME_RESET

\* C18: on every exit path of a relay that has allocated a pty pair, a
\* failure to start the child or to read the terminal attributes included,
\* both descriptors are closed in the parent before the relay returns or
\* propagates.
C18_PtyDescriptorsClosed ==
    (Ended /\ term.master # "none") =>
        (term.master = "closed" /\ term.slave = "closed")

\* the relay is in its loop
InLoop == phase \in {"select", "read_stdin", "read_master"}

\* the relay returned the child's status, or an exception is on its way out
ReturnedChildStatus ==
    /\ phase \in {"finally", "exited"}
    /\ term.pending = Pending("return", term.child.status)
    /\ phase = "exited" => exit_code = term.child.status
Raised == term.pending.kind = "raise" \/ phase = "crashed"

\* C23: once the child has exited and the slave side of the pty is closed,
\* the relay loop eventually sees the end of output on the master, leaves
\* the loop and returns the child's exit status (unless an exception
\* interrupts it).  End of output on the master is the only way out of the
\* loop that is not an exception; a zero-length read from the real
\* terminal's input does not end the loop and does not keep it from ending.
C23_LoopEndsAfterChild ==
    /\ (InLoop /\ term.child.ended) ~> (ReturnedChildStatus \/ Raised)
    /\ (InLoop /\ term.child.ended /\ term.stdin_eof) ~> ~InLoop
    /\ [][(InLoop /\ ~InLoop') =>
             \/ phase = "read_master" /\ term.child.ended /\ phase' = "wait"
             \/ phase' = "finally" /\ term'.pending.kind = "raise"]_vars
    /\ [][(phase = "read_stdin" /\ ~term.stdin_eof /\ term'.stdin_eof) => InLoop']_vars

\* the relay returned the child's status after the real terminal's input
\* had ended
C23_Witness ==
    /\ phase = "exited" /\ term.master = "closed"
    /\ term.stdin_eof /\ term.child.ended
    /\ exit_code = term.child.status

\* C24: in the relay loop EIO on reading the master is the end of output
\* and ends the session normally with the child's exit status; any other
\* I/O error of a read or write in the loop propagates to the caller, and
\* only after teardown has restored the terminal.
C24_RelayIoErrors ==
    /\ [][(phase = "read_master" /\ phase' = "wait") =>
              (term.child.ended /\ term'.pending.kind = "none")]_vars
    /\ [][(phase = "wait" /\ term'.pending.kind = "return") =>
              term'.pending.code = term.child.status]_vars
    /\ [][(phase = "read_master" /\ term'.relayed = term.relayed + 1) =>
              Len(stdout') = Len(stdout) + 1]_vars
    /\ [][(phase = "finally" /\ term.pending.kind = "raise" /\ term.mode = "raw") =>
              (phase' = "crashed" /\ term'.mode = "original"
               /\ term'.sigwinch = "previous")]_vars

\* validate_config_files has a record with this status for the file
HasFileRecord(label, status) ==
    \E i \in DOMAIN checks.list :
        checks.list[i].name = label \o "_config_file" /\ checks.list[i].status = status

\* resolve_effective_config aborts because of the file: loading it fails
AbortsResolution(path, file) ==
    \E out \in _load_existing_config_file(path, file) : ~out.ok

\* the records of validate_config_files agree with resolution about a file
RecordsAgree(label, path, file) ==
    /\ HasFileRecord(label, "fail") <=> AbortsResolution(path, file)
    /\ ~AbortsResolution(path, file) => HasFileRecord(label, "ok")

\* C27: validate_config_files performs the same parse as resolution and
\* never raises: for every content of the two config files it returns a
\* record list, with a 'fail' record for a file if and only if resolution
\* would abort because of that file (not a regular file, unparsable content,
\* [cos] not a table, a non-string value, a value outside its set), and an
\* 'ok' record for a file that resolution accepts.
C27_ValidateMatchesResolution ==
    /\ ~checks.raised
    /\ phase \in {"validated", "exited"} =>
           /\ RecordsAgree("global", GlobalPath, files.global)
           /\ RecordsAgree("local", LocalPath, files.local)

\* the file holds, for the known key k, a value that is not a string or
\* that lies outside the key's enumerated set
InvalidInFile(file, k) ==
    /\ FileHolds(file, k)
    /\ \/ file.data[k].kind = "other"
       \/ k \in EnumKeys /\ Strip(file.data[k].text) \notin Allowed(k)

\* a layer above the config files supplies a valid value for k
ValidAbove(k) ==
    \/ EnvNonEmpty(k) /\ (k \in EnumKeys => Strip(environ[k]) \in Allowed(k))
    \/ CliExplicit(k) /\ (k \in EnumKeys => Strip(overrides[k].text) \in Allowed(k))

MaxRunEdits == 2

Invocation(command) == [NoInv EXCEPT !.command = command]

WorkingHost(tty) ==
    [ has_posix_tty |-> TRUE, stdin_tty |-> tty, stdout_tty |-> tty,
      stdin_text |-> <<>>, system_prompt |-> "absent", workspace_id |-> <<>>,
      codex_on_path |-> TRUE, docker_on_path |-> TRUE ]

InvChoices ==
    [ prompt |-> {<<"-">>, <<"fix">>, <<" ">>},
      session_id |-> {<<"abc-123">>, <<" ">>, <<"a", ".", "b">>},
      last |-> {TRUE},
      show_all |-> {TRUE},
      dangerous |-> {TRUE},
      search |-> {TRUE},
      json_output |-> {TRUE},
      skip_git_repo_check |-> {TRUE},
      no_app_mcp |-> {TRUE} ]

OptionChoices ==
    [ app_mcp_name |-> {Str(<<"bad", " ", "name">>), Str(<<" ">>)},
      app_mcp_url |-> {Str(<<"http://x/mcp">>)},
      docker_container |-> {Str(<<" ">>)},
      docker_codex_home_root |-> {Str(<<" ">>)},
      sandbox |-> {Str(<<"bogus">>)} ]

HostChoices ==
    [ has_posix_tty |-> {FALSE},
      stdin_tty |-> BOOLEAN,
      stdout_tty |-> BOOLEAN,
      stdin_text |-> {<<" ", "do", "\n">>, <<"\n">>},
      system_prompt |-> {"text", "unreadable"},
      workspace_id |-> {<<"ws1">>},
      codex_on_path |-> {FALSE},
      docker_on_path |-> {FALSE} ]

FileChoices ==
    { [state |-> "bad_toml", data |-> EmptyFile.data],
      WithKey(EmptyFile, "approval", Str(<<"bogus">>)),
      WithKey(EmptyFile, "app_mcp_name", Str(<<"bad", " ", "name">>)) }

InitRun ==
    /\ phase = "run_setup"
    /\ edits = 0
    /\ files = [global |-> EmptyFile, local |-> EmptyFile]
    /\ environ = EmptyEnviron
    /\ \E backend \in {<<"local">>, <<"docker">>}, theme \in {<<"default">>, <<"green">>} :
          overrides = [NoOverrides EXCEPT !["codex_backend"] = Str(backend),
                                          !["terminal_theme"] = Str(theme)]
    /\ resolved = None
    /\ values = <<>>
    /\ checks = [raised |-> FALSE, list |-> <<>>]
    /\ exit_code = -1
    /\ args = NoArgs
    /\ user_prompt = <<>>
    /\ passthrough = <<>>
    /\ cmd = NoCmd
    /\ value = <<>>
    /\ quoted = <<>>
    /\ parsed = NoParse
    /\ \E command \in {"chat", "exec", "resume"} : inv = Invocation(command)
    /\ \E tty \in BOOLEAN : host = WorkingHost(tty)
    /\ spawned = <<>>
    /\ touched = {}
    /\ term = TermAtRest
    /\ stdout = <<>>
    /\ FilterIdle

\* an argument or a flag is typed
TypeArgument ==
    /\ phase = "run_setup" /\ edits < MaxRunEdits
    /\ \E f \in DOMAIN InvChoices : \E v \in InvChoices[f] :
          /\ inv[f] # v
          /\ inv' = [inv EXCEPT ![f] = v]
    /\ edits' = edits + 1
    /\ UNCHANGED <<phase, cfgVars, cmdVars, quoteVars, filterVars>>
    /\ UNCHANGED <<host, spawned, touched, term, stdout>>

\* an option that overrides a configuration key is typed
TypeOption ==
    /\ phase = "run_setup" /\ edits < MaxRunEdits
    /\ \E k \in DOMAIN OptionChoices : \E raw \in OptionChoices[k] :
          /\ overrides[k] # raw
          /\ overrides' = [overrides EXCEPT ![k] = raw]
    /\ edits' = edits + 1
    /\ UNCHANGED <<phase, files, environ, resolved, values, checks, exit_code>>
    /\ UNCHANGED <<cmdVars, quoteVars, filterVars, runVars>>

\* arguments after the options are passed through
TypePassthrough ==
    /\ phase = "run_setup" /\ edits < MaxRunEdits
    /\ passthrough = <<>>
    /\ \E p \in PassthroughChoices : passthrough' = p
    /\ edits' = edits + 1
    /\ UNCHANGED <<phase, cfgVars, args, user_prompt, cmd, quoteVars, runVars, filterVars>>

\* the host differs
ChangeHost ==
    /\ phase = "run_setup" /\ edits < MaxRunEdits
    /\ \E f \in DOMAIN HostChoices : \E v \in HostChoices[f] :
          /\ host[f] # v
          /\ host' = [host EXCEPT ![f] = v]
    /\ edits' = edits + 1
    /\ UNCHANGED <<phase, cfgVars, cmdVars, quoteVars, filterVars>>
    /\ UNCHANGED <<inv, spawned, touched, term, stdout>>

\* the repository has a config file
WriteLocalConfig ==
    /\ phase = "run_setup" /\ edits < MaxRunEdits
    /\ files.local = EmptyFile
    /\ \E f \in FileChoices : files' = [files EXCEPT !.local = f]
    /\ edits' = edits + 1
    /\ UNCHANGED <<phase, environ, overrides, resolved, values, checks, exit_code>>
    /\ UNCHANGED <<cmdVars, quoteVars, filterVars, runVars>>

RunSetup == TypeArgument \/ TypeOption \/ TypePassthrough \/ ChangeHost \/ WriteLocalConfig

\* prompting.py: load_text_file on the system prompt file; the text, or the
\* RuntimeError of an unreadable file
SystemPromptText == <<"be", " ", "brief", "\n">>
load_text_file(state) ==
    CASE state = "absent" -> [ok |-> TRUE, text |-> <<>>]
      [] state = "text" -> [ok |-> TRUE, text |-> Strip(SystemPromptText)]
      [] state = "unreadable" -> [ok |-> FALSE, text |-> <<>>]

\* resolve_user_prompt that never reads standard input
resolve_user_prompt_NoStdin(raw_prompt, stdin_text) == Strip(raw_prompt)

\* prompting.py: resolve_user_prompt(raw_prompt, allow_stdin=True)
resolve_user_prompt(raw_prompt, stdin_text) ==
    IF raw_prompt = <<"-">> THEN Strip(stdin_text) ELSE Strip(raw_prompt)

\* "\n\n".join(blocks)
RECURSIVE JoinBlocks(_)
JoinBlocks(blocks) ==
    IF blocks = <<>> THEN <<>>
    ELSE IF Len(blocks) = 1 THEN blocks[1]
    ELSE blocks[1] \o <<"\n", "\n">> \o JoinBlocks(Tail(blocks))

\* prompting.py: build_hidden_instruction; the fixed sentences are single
\* symbols
build_hidden_instruction(app_mcp_name, app_mcp_url, extra_system_prompt, has_user_prompt, runtime_workspace_id) ==
    LET base == <<"COS wrapper runtime instructions:", "\n",
                  "- The application MCP server is preconfigured and available in this session.",
                  "\n", "- Server name: ">> \o app_mcp_name
                \o <<"\n", "- Server URL: ">> \o app_mcp_url
                \o <<"\n", "- Use this MCP [...] enable this MCP server.", "\n">>
        blocks == <<base>>
            \o (IF runtime_workspace_id # <<>>
                THEN << <<"Detected application workspace:", "\n", "- Active workspace_id: ">>
                        \o runtime_workspace_id >>
                ELSE <<>>)
            \o (IF extra_system_prompt # <<>>
                THEN << <<"Additional COS system instructions:", "\n">> \o extra_system_prompt >>
                ELSE <<>>)
            \o (IF ~has_user_prompt
                THEN << <<"No initial user request was provided. Reply with one short readiness message and wait.">> >>
                ELSE <<>>)
    IN Strip(JoinBlocks(blocks))

\* prompting.py: compose_prompt
compose_prompt(hidden_instruction, user) ==
    LET user_text == Strip(user) IN
    IF user_text = <<>> THEN hidden_instruction
    ELSE Strip(hidden_instruction \o <<"\n", "\n", "User request:", "\n">> \o user_text)

\* SESSION_ID_PATTERN.fullmatch(v): the same pattern as for MCP names
SESSION_ID_PATTERN(v) == MCP_SERVER_NAME_PATTERN(v)

\* str(codex_backend).strip().lower() of the effective configuration
RunBackend == Lower(Strip(values["codex_backend"]))

\* the run ends with an exit code: _run_codex returns it, the handler raises
\* typer.Exit with it and main returns it
ExitWith(code) ==
    /\ exit_code' = code
    /\ phase' = "exited"

\* resume_command, line 934: only a session id that matches the pattern counts
LastWithSessionId_PatternOnly(last, session_id) ==
    last /\ SESSION_ID_PATTERN(Strip(session_id))

\* resume_command, line 934: `if last and str(session_id or "").strip():`
LastWithSessionId(last, session_id) == last /\ Strip(session_id) # <<>>

\* the command handler up to the call of _run_codex: resume refuses --last
\* with a session id; the configuration is resolved (a ConfigError ends the
\* run with 2, the TOML decoder's error is not caught) and completed with
\* the backend defaults
Invoke ==
    /\ phase = "run_setup"
    /\ IF inv.command = "resume" /\ LastWithSessionId(inv.last, inv.session_id)
       THEN ExitWith(2) /\ UNCHANGED <<resolved, values, touched>>
       ELSE /\ touched' = {"config_files", "environ"}
            /\ \E r \in resolve_effective_config(files, environ, overrides) :
                  /\ resolved' = r
                  /\ IF r.status = "ok"
                     THEN /\ values' = _resolved_values_with_backend_defaults(r)
                          /\ phase' = "run_codex"
                          /\ UNCHANGED exit_code
                     ELSE /\ UNCHANGED values
                          /\ IF r.error.kind \in ConfigErrorKinds THEN ExitWith(2) ELSE Propagate
    /\ UNCHANGED <<edits, files, environ, overrides, checks>>
    /\ UNCHANGED <<cmdVars, quoteVars, filterVars, inv, host, spawned, term, stdout>>

\* _run_codex, lines 294-299: the system prompt file is loaded
LoadSystemPrompt ==
    /\ phase = "run_codex"
    /\ IF load_text_file(host.system_prompt).ok
       THEN phase' = "scope" /\ UNCHANGED exit_code
       ELSE ExitWith(1)
    /\ UNCHANGED <<edits, files, environ, overrides, resolved, values, checks>>
    /\ UNCHANGED <<cmdVars, quoteVars, filterVars, runVars>>

\* lines 301-304, _resolve_runtime_scope: the workspace id is read from the
\* environment, with the docker backend through `docker exec <container>
\* python` (no container name: not asked; any failure gives no id)
ResolveRuntimeScope ==
    /\ phase = "scope"
    /\ IF RunBackend = <<"docker">>
       THEN IF Strip(values["docker_container"]) = <<>> \/ ~host.docker_on_path
            THEN UNCHANGED <<inv, spawned>>
            ELSE /\ spawned' = Append(spawned, "scope_probe")
                 /\ \E answered \in BOOLEAN :
                       inv' = [inv EXCEPT !.workspace_id =
                                  IF answered THEN Strip(host.workspace_id) ELSE <<>>]
       ELSE /\ inv' = [inv EXCEPT !.workspace_id = Strip(host.workspace_id)]
            /\ UNCHANGED spawned
    /\ phase' = "prompt"
    /\ UNCHANGED <<edits, cfgVars, cmdVars, quoteVars, filterVars>>
    /\ UNCHANGED <<host, touched, term, stdout>>

\* lines 306-321: the user prompt is resolved; exec refuses an empty one;
\* chat and exec wrap it in the hidden instruction
ResolveUserPrompt ==
    /\ phase = "prompt"
    /\ LET user == resolve_user_prompt(inv.prompt, host.stdin_text)
           hidden == build_hidden_instruction(
                         values["app_mcp_name"], values["app_mcp_url"],
                         load_text_file(host.system_prompt).text,
                         user # <<>>, inv.workspace_id)
       IN /\ inv' = [inv EXCEPT !.user_text = user]
          /\ IF inv.command = "exec" /\ user = <<>>
             THEN ExitWith(2) /\ UNCHANGED user_prompt
             ELSE /\ user_prompt' = IF inv.command = "resume" THEN user
                                    ELSE compose_prompt(hidden, user)
                  /\ phase' = "resume_home"
                  /\ UNCHANGED exit_code
    /\ UNCHANGED <<edits, files, environ, overrides, resolved, values, checks>>
    /\ UNCHANGED <<args, passthrough, cmd, quoteVars, filterVars>>
    /\ UNCHANGED <<host, spawned, touched, term, stdout>>

\* what the session search prints: nothing, or the home of the session
SessionHomes == {<<>>, <<"/home/x">>}

\* lines 340-363: the namespace handed to the runtime check and the builder
\* (the handlers fix the flags their command does not have)
RunArgs(docker_home) ==
    [ command |-> inv.command,
      repo |-> values["repo"],
      model |-> values["model"],
      sandbox |-> values["sandbox"],
      approval |-> values["approval"],
      dangerous |-> inv.dangerous,
      search |-> inv.command # "exec" /\ inv.search,
      json |-> inv.command = "exec" /\ inv.json_output,
      skip_git_repo_check |->
          inv.command = "exec" /\ (inv.skip_git_repo_check \/ RunBackend = <<"docker">>),
      resume_session_id |-> IF inv.command = "resume" THEN Strip(inv.session_id) ELSE <<>>,
      resume_last |-> inv.command = "resume" /\ inv.last,
      resume_all |-> inv.command = "resume" /\ inv.show_all,
      codex_backend |-> values["codex_backend"],
      docker_container |-> values["docker_container"],
      docker_workdir |-> values["docker_workdir"],
      docker_codex_binary |-> values["docker_codex_binary"],
      docker_home |-> docker_home,
      interactive_tty |-> host.stdin_tty /\ host.stdout_tty,
      no_app_mcp |-> inv.no_app_mcp,
      app_mcp_name |-> values["app_mcp_name"],
      app_mcp_url |-> values["app_mcp_url"],
      app_mcp_bearer_env |-> values["app_mcp_bearer_env"] ]

\* lines 323-363: for a docker resume with a session id the session's home
\* is searched in the container (find_docker_resume_home: no search for an
\* id off the pattern or an empty root; a failed search is a RuntimeError,
\* caught; a missing docker binary or a timeout raises something else, not
\* caught), then the namespace is built
FindDockerResumeHome ==
    /\ phase = "resume_home"
    /\ LET sid == Strip(inv.session_id)
           root == Strip(values["docker_codex_home_root"])
       IN IF inv.command = "resume" /\ RunBackend = <<"docker">> /\ sid # <<>>
             /\ SESSION_ID_PATTERN(sid) /\ root # <<>>
          THEN IF ~host.docker_on_path
               THEN Propagate /\ UNCHANGED <<args, spawned>>
               ELSE /\ spawned' = Append(spawned, "session_search")
                    /\ \/ Propagate /\ UNCHANGED args
                       \/ /\ \E home \in SessionHomes : args' = RunArgs(home)
                          /\ phase' = "preflight"
                          /\ UNCHANGED exit_code
          ELSE /\ args' = RunArgs(<<>>)
               /\ phase' = "preflight"
               /\ UNCHANGED <<exit_code, spawned>>
    /\ UNCHANGED <<edits, files, environ, overrides, resolved, values, checks>>
    /\ UNCHANGED <<user_prompt, passthrough, cmd, quoteVars, filterVars>>
    /\ UNCHANGED <<inv, host, touched, term, stdout>>

\* how far the docker checks of require_codex_runtime get
DockerProbes ==
    { [spawns |-> <<"inspect">>, end |-> "timeout"],
      [spawns |-> <<"inspect">>, end |-> "fail"],  \* returncode # 0, or not running
      [spawns |-> <<"inspect", "version_check">>, end |-> "timeout"],
      [spawns |-> <<"inspect", "version_check">>, end |-> "fail"],
      [spawns |-> <<"inspect", "version_check">>, end |-> "ok"] }

\* codex_runner.py: require_codex_runtime, and lines 364-368 of _run_codex:
\* a RuntimeError ends the run with 1; subprocess.TimeoutExpired is not a
\* RuntimeError and is not caught
RequireCodexRuntime ==
    /\ phase = "preflight"
    /\ IF BackendOf(args) = <<"local">>
       THEN /\ IF host.codex_on_path THEN phase' = "build" /\ UNCHANGED exit_code
               ELSE ExitWith(1)
            /\ UNCHANGED spawned
       ELSE IF BackendOf(args) # <<"docker">> \/ ~host.docker_on_path
               \/ Strip(args.docker_container) = <<>>
       THEN ExitWith(1) /\ UNCHANGED spawned
       ELSE \E probe \in DockerProbes :
               /\ spawned' = spawned \o probe.spawns
               /\ CASE probe.end = "ok" -> phase' = "build" /\ UNCHANGED exit_code
                    [] probe.end = "fail" -> ExitWith(1)
                    [] probe.end = "timeout" -> Propagate
    /\ UNCHANGED <<edits, files, environ, overrides, resolved, values, checks>>
    /\ UNCHANGED <<cmdVars, quoteVars, filterVars, inv, host, touched, term, stdout>>

\* token == "--color" or token.startswith("--color=")
IsColorOption(token) == token # <<>> /\ token[1] \in {"--color", "--color="}

\* the option put after the last argument
InsertColorNever_Append(argv) ==
    IF \E i \in DOMAIN argv : IsColorOption(argv[i]) THEN argv
    ELSE argv \o <<<<"--color">>, <<"never">>>>

\* lines 376-379: cmd[-1:-1] = ["--color", "never"]
InsertColorNever(argv) ==
    IF \E i \in DOMAIN argv : IsColorOption(argv[i]) THEN argv
    ELSE SubSeq(argv, 1, Len(argv) - 1) \o <<<<"--color">>, <<"never">>>>
         \o SubSeq(argv, Len(argv), Len(argv))

\* lines 370-386: the command is built (a RuntimeError ends the run with 2);
\* with the green theme exec gets --color never and the child is handed to
\* _run_with_green_pty, otherwise it is run directly
BuildCommand ==
    /\ phase = "build"
    /\ LET built == build_codex_command(args, user_prompt, passthrough)
           green == values["terminal_theme"] = <<"green">>
       IN IF built.status = "error"
          THEN cmd' = built /\ ExitWith(2)
          ELSE /\ cmd' = IF green /\ inv.command = "exec"
                         THEN Built(InsertColorNever(built.argv)) ELSE built
               /\ phase' = IF green THEN "relay_entry" ELSE "direct"
               /\ UNCHANGED exit_code
    /\ UNCHANGED <<edits, files, environ, overrides, resolved, values, checks>>
    /\ UNCHANGED <<args, user_prompt, passthrough, quoteVars, filterVars, runVars>>

RunCodex ==
    \/ LoadSystemPrompt \/ ResolveRuntimeScope \/ ResolveUserPrompt
    \/ FindDockerResumeHome \/ RequireCodexRuntime \/ BuildCommand

NextRun == RunSetup \/ Invoke \/ RunCodex \/ RunDirect \/ Relay \/ ChildExits

SpecRun == InitRun /\ [][NextRun]_vars

(***************************************************************************)
(* Claims about the run pipeline.                                          *)
(***************************************************************************)

\* the configuration was resolved
ConfigResolved == DOMAIN values # {}

Interactive == host.stdin_tty /\ host.stdout_tty

\* a docker-backend chat or resume run without an interactive terminal
DockerRunWithoutTty ==
    /\ ConfigResolved
    /\ RunBackend = <<"docker">>
    /\ inv.command \in {"chat", "resume"}
    /\ ~Interactive

\* C11: a docker-backend chat or resume run with no interactive terminal on
\* both standard input and standard output fails before any process is
\* spawned: at no point of the run has a child process, the agent or any
\* other external program, been started.
C11_NoSpawnWithoutTty == DockerRunWithoutTty => spawned = <<>>

\* the exec prompt is empty: an empty argument, or '-' with nothing on
\* standard input
EmptyExecPrompt ==
    /\ inv.command = "exec"
    /\ IF inv.prompt = <<"-">> THEN Strip(host.stdin_text) = <<>>
       ELSE Strip(inv.prompt) = <<>>

PreflightRan == \E i \in DOMAIN spawned : spawned[i] \in {"inspect", "version_check"}
AgentSpawned == \E i \in DOMAIN spawned : spawned[i] = "agent"

\* C12: an exec run whose user prompt is empty after resolution ends with
\* exit code 2 at the prompt check, before the runtime preflight and before
\* the command is built, so the agent is never spawned; with the prompt '-'
\* the user prompt is the trimmed text of standard input.
C12_EmptyExecPrompt ==
    /\ [](EmptyExecPrompt => (~PreflightRan /\ ~AgentSpawned /\ cmd = NoCmd /\ args = NoArgs))
    /\ [][(phase = "prompt" /\ EmptyExecPrompt)
              => (phase' = "exited" /\ exit_code' = 2)]_vars
    /\ [][(phase = "prompt" /\ inv.command = "exec" /\ inv.prompt = <<"-">>)
              => inv'.user_text = Strip(host.stdin_text)]_vars

\* exec - with blank standard input was refused at the prompt check
C12_Witness ==
    /\ phase = "exited" /\ exit_code = 2
    /\ ConfigResolved /\ EmptyExecPrompt
    /\ inv.prompt = <<"-">> /\ host.stdin_text = <<"\n">>
    /\ load_text_file(host.system_prompt).ok
    /\ RunBackend = <<"docker">> /\ spawned = <<"scope_probe">>

\* the invocation has been handled
Invoked == phase # "run_setup"

NothingReadOrSpawned ==
    /\ touched = {}
    /\ ~ConfigResolved /\ resolved = None
    /\ spawned = <<>>

\* C13 as stated: resume with --last and a non-empty session id is rejected
\* with exit code 2 before configuration resolution: nothing is read, no
\* preflight runs, no process is spawned.
C13_LastWithSessionIdRejected ==
    (Invoked /\ inv.command = "resume" /\ inv.last /\ inv.session_id # <<>>)
        => (phase = "exited" /\ exit_code = 2 /\ NothingReadOrSpawned)

\* C13, amended: resume with --last and a session id that is non-empty
\* after trimming whitespace is rejected with exit code 2 before
\* configuration resolution: nothing is read, no preflight runs, no process
\* is spawned.
C13_LastWithTrimmedSessionIdRejected ==
    (Invoked /\ inv.command = "resume" /\ inv.last /\ Strip(inv.session_id) # <<>>)
        => (phase = "exited" /\ exit_code = 2 /\ NothingReadOrSpawned)

C13_Witness ==
    /\ phase = "exited" /\ exit_code = 2
    /\ inv.command = "resume" /\ inv.last /\ inv.session_id = <<"abc-123">>
    /\ NothingReadOrSpawned

\* the configured MCP server name does not match the pattern
InvalidMcpName ==
    /\ ConfigResolved
    /\ ~validate_mcp_server_name(values["app_mcp_name"]).ok

\* C14: every chat, exec or resume run whose configured MCP server name is
\* invalid ends with exit code 2 and never spawns the agent, whatever the
\* state of the execution backend.
C14_InvalidNameEndsWith2 ==
    InvalidMcpName =>
        /\ ~AgentSpawned
        /\ Ended => (phase = "exited" /\ exit_code = 2)

\* what the preflight step has spawned
Probed == SubSeq(spawned', Len(spawned) + 1, Len(spawned'))

\* C15: when the runtime preflight fails the run ends with exit code 1 and
\* the agent is never spawned.  It fails for the local backend without an
\* agent binary on the path, and for the docker backend, in this order and
\* each check only after the earlier ones passed, for a missing docker
\* binary, an empty container name, a failing inspection or a container not
\* running, and a failing version check, a check that does not finish within
\* its timeout included.
C15_PreflightFailure ==
    [][phase = "preflight" =>
          /\ phase' # "build" => (phase' = "exited" /\ exit_code' = 1 /\ ~AgentSpawned')
          /\ (BackendOf(args) = <<"local">> /\ ~host.codex_on_path) => phase' # "build"
          /\ Probed \in {<<>>, <<"inspect">>, <<"inspect", "version_check">>}
          /\ (\/ BackendOf(args) # <<"docker">>
              \/ ~host.docker_on_path
              \/ Strip(args.docker_container) = <<>>) => Probed = <<>>
          /\ (phase' = "build" /\ BackendOf(args) = <<"docker">>)
                 => Probed = <<"inspect", "version_check">>]_vars

\* C16: whenever the agent was spawned and the tool ends with an exit code,
\* the code is the child's exit status unchanged, on the direct path and on
\* the relay path alike.
C16_ExitCodeIsChildStatus ==
    (phase = "exited" /\ AgentSpawned) =>
        (term.child.ended /\ exit_code = term.child.status)

\* a child ended by a signal behind the relay, after the whole pipeline
C16_Witness ==
    /\ phase = "exited" /\ AgentSpawned /\ ConfigResolved
    /\ term.master = "closed"
    /\ term.child = EndedWith(-9) /\ exit_code = -9

\* the theme is green, the platform has ptys and both streams are terminals
GreenRelayDue ==
    /\ ConfigResolved
    /\ values["terminal_theme"] = <<"green">>
    /\ host.has_posix_tty /\ host.stdin_tty /\ host.stdout_tty

RelayUsed == term.master # "none"
TerminalTouched == term.mode # "original" \/ term.sigwinch # "previous"

\* C19: the pty relay and the output rewrite are used if and only if the
\* resolved theme is green, pty support is available and both standard
\* streams are terminals; in every other case the child is run directly,
\* nothing is rewritten, no terminal mode is changed and no theme sequence
\* is written.
C19_RelayIffGreenTty ==
    /\ (RelayUsed \/ TerminalTouched \/ stdout # <<>>) => GreenRelayDue
    /\ (AgentSpawned /\ GreenRelayDue) => RelayUsed
    /\ (AgentSpawned /\ ~GreenRelayDue) =>
           (~RelayUsed /\ ~TerminalTouched /\ stdout = <<>> /\ term.child.ended)

\* a relayed run whose child output was rewritten
C19_Witness ==
    /\ phase = "exited" /\ AgentSpawned /\ GreenRelayDue /\ RelayUsed
    /\ Len(stdout) = 3
    /\ stdout[2] = <<"ESC", "[", "0", "m", "ESC", "[", "3", "2", "m", "x">>

\* the hidden instruction of the run
HiddenOfRun ==
    build_hidden_instruction(values["app_mcp_name"], values["app_mcp_url"],
                             load_text_file(host.system_prompt).text,
                             inv.user_text # <<>>, inv.workspace_id)

HasPrefix(t, p) == Len(p) <= Len(t) /\ SubSeq(t, 1, Len(p)) = p

\* the last argument of the command line
LastArgument == cmd.argv[Len(cmd.argv)]

UserRequestMarker == <<"\n", "\n", "User request:", "\n">>

\* C21: the hidden instruction is always delivered: for chat, exec and
\* resume, with or without a user prompt, the prompt argument of every
\* spawned agent command line begins with the hidden instruction, and a
\* non-empty user prompt follows it, trimmed, after the marker
\* 'User request:'.
C21_HiddenInstructionDelivered ==
    (ConfigResolved /\ AgentSpawned) =>
        /\ cmd.status = "ok"
        /\ HasPrefix(LastArgument, HiddenOfRun)
        /\ inv.user_text # <<>> =>
               LastArgument = HiddenOfRun \o UserRequestMarker \o inv.user_text

\* the command as build_codex_command returned it
BuiltArgv == build_codex_command(args, user_prompt, passthrough).argv

\* an argument equal to --color or starting with --color= is present
ColorGiven == \E i \in DOMAIN BuiltArgv :
    \/ BuiltArgv[i] = <<"--color">>
    \/ HasPrefix(BuiltArgv[i], <<"--color=">>)

\* --color never is in the command where the tool puts it
ColorNeverAdded ==
    /\ Len(cmd.argv) = Len(BuiltArgv) + 2
    /\ \E i \in 1..(Len(cmd.argv) - 1) :
          cmd.argv[i] = <<"--color">> /\ cmd.argv[i + 1] = <<"never">>

\* C22: --color never is added to the command if and only if the theme is
\* green, the command is exec and no argument equal to --color or starting
\* with --color= is present; never for chat or resume or under the default
\* theme; and after it is added the composed prompt is still the last
\* argument.
C22_ColorNever ==
    cmd.status = "ok" =>
        /\ ColorNeverAdded <=>
              (values["terminal_theme"] = <<"green">> /\ inv.command = "exec" /\ ~ColorGiven)
        /\ ~ColorNeverAdded => cmd.argv = BuiltArgv
        /\ ColorNeverAdded =>
              /\ LastArgument = Strip(user_prompt)
              /\ LastArgument = compose_prompt(HiddenOfRun, inv.user_text)
              /\ SubSeq(cmd.argv, 1, Len(BuiltArgv) - 1) = SubSeq(BuiltArgv, 1, Len(BuiltArgv) - 1)
              /\ cmd.argv[Len(cmd.argv) - 2] = <<"--color">>
              /\ cmd.argv[Len(cmd.argv) - 1] = <<"never">>

\* a green exec run with a near miss of the option among its arguments
C22_Witness ==
    /\ phase = "exited" /\ AgentSpawned /\ cmd.status = "ok"
    /\ ColorNeverAdded
    /\ passthrough = << <<"--colors">> >>

\* the command line holds the pair -c token
HasConfigPair(token) ==
    \E i \in 1..(Len(cmd.argv) - 1) :
        cmd.argv[i] = <<"-c">> /\ cmd.argv[i + 1] = token

\* the hidden instruction announces the server: it is the head of the prompt
\* argument, and it names the configured server and URL
AnnouncesMcpServer ==
    /\ cmd.status = "ok"
    /\ HasPrefix(LastArgument, HiddenOfRun)

\* C29: the prompt and the command line agree about the MCP server: in
\* every chat or exec run that spawns the agent, whenever the hidden
\* instruction says the application MCP server <name> at <url> is
\* preconfigured, the command line holds the pairs -c
\* mcp_servers.<name>.url=<quoted url> and -c mcp_servers.<name>.enabled=true
\* for that name and URL, runs with the injection disabled or an empty name
\* or URL included.
C29_PromptAgreesWithCommand ==
    (ConfigResolved /\ AgentSpawned /\ inv.command \in {"chat", "exec"}
       /\ AnnouncesMcpServer) =>
        /\ HasConfigPair(<<"mcp_servers.">> \o values["app_mcp_name"] \o <<".url=">>
                         \o toml_quote(values["app_mcp_url"]))
        /\ HasConfigPair(<<"mcp_servers.">> \o values["app_mcp_name"]
                         \o <<".enabled=true">>)

\* a command was run in the container to search the session logs
SessionSearched == \E i \in DOMAIN spawned : spawned[i] = "session_search"

\* the lookup answers without a search: empty or ill-formed id, or empty root
LookupShortCut ==
    \/ Strip(inv.session_id) = <<>>
    \/ ~SESSION_ID_PATTERN(Strip(inv.session_id))
    \/ Strip(values["docker_codex_home_root"]) = <<>>

\* the command line holds -e HOME=<the directory the lookup returned>
HasHomeOverride ==
    \E i \in 1..(Len(cmd.argv) - 1) :
        /\ cmd.argv[i] = <<"-e">>
        /\ cmd.argv[i + 1] = <<"HOME=">> \o args.docker_home

\* C30: the session-home lookup returns the empty string, without running a
\* command in the container, when the session id is empty or off the
\* pattern or the search root is empty; the run pipeline performs the
\* lookup only for resume under the docker backend with a non-empty session
\* id; a failed lookup is treated as no override, so the run goes on to the
\* runtime preflight; and -e HOME=<dir> is in the command exactly when the
\* lookup returned a non-empty directory.
C30_SessionHomeLookup ==
    /\ [](SessionSearched =>
            /\ inv.command = "resume" /\ RunBackend = <<"docker">>
            /\ ~LookupShortCut)
    /\ []((args # NoArgs /\ LookupShortCut) => args.docker_home = <<>>)
    /\ [][phase = "resume_home" => phase' = "preflight"]_vars
    /\ []((args # NoArgs /\ cmd.status = "ok") =>
            (HasHomeOverride <=> args.docker_home # <<>>))

(***************************************************************************)
(* The filter model: _apply_green_theme_to_chunk applied to one chunk.     *)
(***************************************************************************)

InitFilter ==
    /\ phase = "filter"
    /\ edits = 0
    /\ files = [global |-> EmptyFile, local |-> EmptyFile]
    /\ environ = EmptyEnviron
    /\ overrides = NoOverrides
    /\ resolved = None
    /\ values = <<>>
    /\ checks = [raised |-> FALSE, list |-> <<>>]
    /\ exit_code = -1
    /\ args = NoArgs
    /\ user_prompt = <<>>
    /\ passthrough = <<>>
    /\ cmd = NoCmd
    /\ value = <<>>
    /\ quoted = <<>>
    /\ parsed = NoParse
    /\ RunIdle
    /\ data \in Chunks \cup ColourChunks
    /\ patched = <<>>

\* patched = _apply_green_theme_to_chunk(data)
ApplyGreenTheme ==
    /\ phase = "filter"
    /\ patched' = _apply_green_theme_to_chunk(data)
    /\ phase' = "filtered"
    /\ UNCHANGED <<edits, cfgVars, cmdVars, quoteVars, runVars, data>>

NextFilter == ApplyGreenTheme

SpecFilter == InitFilter /\ [][NextFilter]_vars

\* data[j..i] is an SGR sequence: ESC, "[", parameter bytes, "m"
IsSgr(d, j, i) ==
    /\ j + 2 <= i
    /\ d[j] = "ESC" /\ d[j + 1] = "[" /\ d[i] = "m"
    /\ \A k \in (j + 2)..(i - 1) : d[k] \in ParamBytes

\* the parameters of a parameter text: its maximal runs of digits
CodesOf(params) ==
    {SubSeq(params, a, b) : <<a, b>> \in
        {ab \in (DOMAIN params) \X (DOMAIN params) :
            /\ ab[1] <= ab[2]
            /\ \A k \in ab[1]..ab[2] : params[k] \in Digits
            /\ (ab[1] = 1 \/ params[ab[1] - 1] = ";")
            /\ (ab[2] = Len(params) \/ params[ab[2] + 1] = ";")}}

\* an SGR sequence ends at i, and it has no parameter or one of the
\* parameters 0, 39, 37, 97
ResetsColourAt(d, i) ==
    \E j \in DOMAIN d :
        /\ IsSgr(d, j, i)
        /\ LET codes == CodesOf(SubSeq(d, j + 2, i - 1)) IN
           codes = {} \/ codes \cap ResetCodes # {}

RECURSIVE WithGreenAfterResets(_, _)
\* the bytes of d from i on, each one that ends such a sequence followed by
\* ESC[32m
WithGreenAfterResets(d, i) ==
    IF i > Len(d) THEN <<>>
    ELSE <<d[i]>> \o (IF ResetsColourAt(d, i) THEN _GREEN_SGR ELSE <<>>)
         \o WithGreenAfterResets(d, i + 1)

\* C20: the filter only inserts: each SGR sequence ESC [ params m of the
\* chunk whose list of parameters is empty or holds one of 0, 39, 37, 97 is
\* followed at once by ESC[32m, and every other byte and escape sequence
\* comes out unchanged and in order (a parameter is a non-empty text between
\* semicolons, compared as text).
C20_FilterOnlyInserts ==
    phase = "filtered" => patched = WithGreenAfterResets(data, 1)

\* a reset is followed by the colour, and a chunk with a sequence that
\* is left alone
C20_Witness ==
    /\ phase = "filtered"
    /\ \/ data = <<"x", "ESC", "[", "0", "m">> /\ Len(patched) = 10
       \/ data = <<"ESC", "[", "3", "m", "x">> /\ patched = data

\* the parameters of a chunk that is one SGR sequence
PartsOf(d) ==
    SelectSeq(SplitParams(SubSeq(d, 3, Len(d) - 1), <<>>), LAMBDA part : part # <<>>)

\* the i-th parameter is the palette index of an extended colour 38;5;n or
\* 48;5;n
IsColourArgument(parts, i) ==
    /\ i >= 3
    /\ parts[i - 2] \in {<<"3", "8">>, <<"4", "8">>}
    /\ parts[i - 1] = <<"5">>

\* a parameter means reset, default foreground, white or bright white
CarriesReset(parts) ==
    \/ parts = <<>>
    \/ \E i \in DOMAIN parts : parts[i] \in ResetCodes /\ ~IsColourArgument(parts, i)

\* C25: the filter appends ESC[32m only after sequences that carry a
\* parameter meaning reset, default foreground, white or bright white: a
\* sequence in which 0, 37, 39 or 97 occurs only as an argument of another
\* code (the palette index in 38;5;0 or 48;5;37) is left untouched.
C25_ColourArgumentsLeftAlone ==
    (phase = "filtered" /\ SgrMatch(data) = Len(data) /\ ~CarriesReset(PartsOf(data)))
        => patched = data

(***************************************************************************)
(* The child's output as a stream: the relay reads it from the master in   *)
(* chunks, wherever os.read happens to cut it, and filters each chunk on   *)
(* its own.                                                                *)
(***************************************************************************)

InitStream ==
    /\ phase = "stream"
    /\ edits = 0
    /\ files = [global |-> EmptyFile, local |-> EmptyFile]
    /\ environ = EmptyEnviron
    /\ overrides = NoOverrides
    /\ resolved = None
    /\ values = <<>>
    /\ checks = [raised |-> FALSE, list |-> <<>>]
    /\ exit_code = -1
    /\ args = NoArgs
    /\ user_prompt = <<>>
    /\ passthrough = <<>>
    /\ cmd = NoCmd
    /\ value = <<>>
    /\ quoted = <<>>
    /\ parsed = NoParse
    /\ RunIdle
    /\ data \in Chunks
    /\ patched = <<>>

\* lines 190-200 over two passes of the loop: the stream arrives in two
\* reads, cut after cut bytes; patched is what reaches the real terminal
RelayStream ==
    /\ phase = "stream"
    /\ \E cut \in 0..Len(data) :
          patched' = _apply_green_theme_to_chunk(SubSeq(data, 1, cut))
                     \o _apply_green_theme_to_chunk(SubSeq(data, cut + 1, Len(data)))
    /\ phase' = "streamed"
    /\ UNCHANGED <<edits, cfgVars, cmdVars, quoteVars, runVars, data>>

NextStream == RelayStream

SpecStream == InitStream /\ [][NextStream]_vars

\* C26: what the relay writes does not depend on how the child's output is
\* cut into reads: the filtered chunks put together are the filter applied
\* to the whole stream, so a reset sequence is followed by ESC[32m even when
\* it straddles a read boundary.
C26_SplitIndependent ==
    phase = "streamed" => patched = _apply_green_theme_to_chunk(data)

====
